---- MODULE Spec2Model ----
(***************************************************************************)
(* Model of pySim's serial transport stack: the APDU classifier            *)
(* (apdu_helper.py), the link parameters and echo-cancelling port          *)
(* (serial_base.py) and the virtual card with its WXT heartbeat            *)
(* (virtual_sim.py).                                                       *)
(*                                                                         *)
(* Bytes are naturals 0..255, byte strings are sequences of bytes.         *)
(***************************************************************************)
EXTENDS Integers, Sequences, FiniteSets, TLC

VARIABLES
    \* ---- ApduHelper (class-level, shared by every classifier instance)
    ins_tables,     \* the instruction tables: table name -> (INS -> entry)
    profile,        \* ApduHelper.profile of the classifier in use (its name)
    hdr,            \* header handed to the last classify_apdu call
    rc,             \* what that call returned (or the failure it ended in)
    \* ---- VirtualSim: GET RESPONSE fix-up
    get_response_cache, \* self._get_response_cache (NoCache for None)
    fx,             \* the last handle_apdu_with_get_response_fix call

    \* ---- SerialBase (the port and the link parameters)
    inbuf,          \* bytes waiting in the port's input buffer
    line,           \* what went out on the line in this exchange: <<who, byte>>
    cancel,         \* cancel_read() was called and no read has taken it yet
    atr,            \* self._atr (<<>> for None)
    fi,             \* self._fi
    di,             \* self._di
    \* ---- VirtualSim, the dispatch thread (run)
    pc,             \* where the thread stands
    alive,          \* self._alive
    restart,        \* self._restart
    do_pps,         \* self._do_pps
    phase,          \* which tx_bytes call is under way: atr, pps, proc, resp
    tx,             \* that call's buffer and how much of it is written
    cur_apdu,       \* _run_apdu_loop's apdu
    cur_le,         \* _run_apdu_loop's le
    \* ---- VirtualSim, the WXT threads (one per APDU dispatched)
    wxt,            \* thread -> [pc, stop (its Event), n (NULLs written)]
    napdu,          \* APDUs handed to _handle_apdu_with_wxt so far
    \* ---- the counterpart and the owner of the VirtualSim object
    sessions,       \* resets the counterpart has asserted
    msent,          \* the counterpart has sent what the pending read waits for
    stop_called,    \* stop() has been called
    stop_phase,     \* where the dispatch thread stood when it was called
    \* ---- SerialBase, clock and port speed
    clk,            \* self._clk
    baud,           \* self._sl.baudrate
    \* ---- SerialSimLink.wait_for_card (the reader)
    wfc_pc,         \* where the call stands, or how it ended
    newcardonly,    \* its argument
    existing,       \* its local
    pe,             \* its local
    resets,         \* outcomes of the reset_card calls it made so far
    \* ---- SerialSimLink.reset_card (the reader)
    rst,            \* the last reset_card call: what came in, how it ended
    \* ---- SerialBase.pps_sent called by itself
    lk,             \* the last pps_sent call: its argument, whether it returned
    \* ---- the reader's port and its last tx_bytes
    rdr,            \* input buffer, bytes written, bytes read back, outcome
    \* ---- BluetoothSapSimLink
    sap,            \* a craft_sap_message call: its arguments and its outcome
    \* ---- SerialSimLink.tx_apdu (the reader)
    ap              \* a tx_apdu call: the APDU, what the card sends, the outcome

cvars == <<ins_tables, profile, hdr, rc>>

fvars == <<get_response_cache, fx>>

pvars == <<inbuf, line, cancel, atr, fi, di>>

dvars == <<pc, alive, restart, do_pps, phase, tx, cur_apdu, cur_le>>

wvars == <<wxt, napdu>>

evars == <<sessions, msent, stop_called, stop_phase>>

vvars == <<pvars, dvars, wvars, evars>>

lvars == <<clk, baud>>

wcvars == <<wfc_pc, newcardonly, existing, pe, resets>>

rcvars == <<rst, ap>>

btvars == <<sap>>

rvars == <<lvars, wcvars, rcvars, lk, rdr, btvars>>

vars == <<cvars, fvars, vvars, rvars>>

\* ------------------------------------------------------------------ bounds

\* P1 of the classified headers ranges over 0..MaxP1.
MaxP1 == 8

\* The application handler returns short responses of 0..MaxRespLen bytes
\* (and the long ones of LongLens).
MaxRespLen == 4

\* GET RESPONSE commands served from the cache in a row
MaxGets == 2

\* Resets the counterpart asserts (sessions of the virtual card)
MaxSessions == 2

\* APDUs the counterpart sends in all
MaxApdus == 2

\* NULL bytes one WXT thread writes
MaxWxt == 1

\* Pieces the port takes one written buffer in
MaxChunks == 2

\* reset_card calls one wait_for_card makes
MaxResets == 5

\* Bytes after which an answer to reset may stop short
MaxCut == 4

\* The largest DI given to pps_sent
MaxDi == 9

\* The longest buffer given to the reader's tx_bytes
MaxTxLen == 3

\* The longest parameter list given to craft_sap_message
MaxParams == 2

\* NULL and procedure bytes the card sends ahead of its answer, at most
MaxLead == 2

\* The longest payload of a SAP parameter given to craft_sap_parameter
MaxPayload == 5

\* ------------------------------------------------------ program constants

DEFAULT_FI == 0
DEFAULT_DI == 1
DEFAULT_WI == 10
HEADER_LEN == 5
PPS_LEN == 4
SW_LEN == 2
ATR_BYTE == 59
PPS_BYTE == 255
WXT_BYTE == 96

\* ------------------------------------------------------------------ bytes

Byte == 0..255

Bit(a, w) == (a \div w) % 2

\* Python's a & b on bytes
BitAnd(a, b) ==
    Bit(a, 1) * Bit(b, 1) + 2 * Bit(a, 2) * Bit(b, 2)
    + 4 * Bit(a, 4) * Bit(b, 4) + 8 * Bit(a, 8) * Bit(b, 8)
    + 16 * Bit(a, 16) * Bit(b, 16) + 32 * Bit(a, 32) * Bit(b, 32)
    + 64 * Bit(a, 64) * Bit(b, 64) + 128 * Bit(a, 128) * Bit(b, 128)

\* Python's a >> n on bytes
ShiftRight(a, n) == a \div (2 ^ n)

\* ------------------------------------------------- instruction tables

NoEntry == [name |-> "NONE", case |-> -1]

Entry(n, c) == [name |-> n, case |-> c]

\* classify_apdu's default_rc
default_rc == [name |-> "UNKNOWN", case |-> 0]

\* The instruction tables as load_json leaves them (INS -> {name, case}).
\* The JSON files are data of the package; the entries below are the
\* instructions of ISO 7816-4, GSM 11.11 and TS 102 221 the tables hold,
\* with case 5 for the two instructions the helper resolves.
iso7816_ins ==
    (176 :> Entry("READ BINARY", 2)) @@ (214 :> Entry("UPDATE BINARY", 3))
    @@ (164 :> Entry("SELECT FILE", 4)) @@ (132 :> Entry("GET CHALLENGE", 2))

gsm1111_ins ==
    (164 :> Entry("SELECT FILE", 4)) @@ (242 :> Entry("STATUS", 2))
    @@ (176 :> Entry("READ BINARY", 2)) @@ (214 :> Entry("UPDATE BINARY", 3))
    @@ (4 :> Entry("INVALIDATE", 1)) @@ (192 :> Entry("GET RESPONSE", 2))
    @@ (16 :> Entry("TERMINAL PROFILE", 3))

uicc_ins_046 ==
    (164 :> Entry("SELECT FILE", 4)) @@ (242 :> Entry("STATUS", 2))
    @@ (176 :> Entry("READ BINARY", 2)) @@ (214 :> Entry("UPDATE BINARY", 3))
    @@ (4 :> Entry("DEACTIVATE FILE", 1)) @@ (192 :> Entry("GET RESPONSE", 2))
    @@ (115 :> Entry("MANAGE SECURE CHANNEL", 5))
    @@ (117 :> Entry("TRANSACT DATA", 5))

uicc_ins_8ce ==
    (242 :> Entry("STATUS", 2)) @@ (50 :> Entry("INCREASE", 4))
    @@ (203 :> Entry("RETRIEVE DATA", 4)) @@ (219 :> Entry("SET DATA", 3))

uicc_ins_80 ==
    (16 :> Entry("TERMINAL PROFILE", 3)) @@ (194 :> Entry("ENVELOPE", 4))
    @@ (18 :> Entry("FETCH", 2)) @@ (20 :> Entry("TERMINAL RESPONSE", 3))

\* ApduHelper's class attributes after the class body has run
LoadedTables ==
    [t \in {"iso7816_ins", "gsm1111_ins", "uicc_ins_046", "uicc_ins_8ce",
            "uicc_ins_80"} |->
        CASE t = "iso7816_ins" -> iso7816_ins
          [] t = "gsm1111_ins" -> gsm1111_ins
          [] t = "uicc_ins_046" -> uicc_ins_046
          [] t = "uicc_ins_8ce" -> uicc_ins_8ce
          [] OTHER -> uicc_ins_80]

\* ------------------------------------------------------------ profiles

ClassMatch(c, m, t, h) ==
    [cla |-> c, cla_mask |-> m, instructions |-> t, helper |-> h]

osim_iso7816_cic_profile ==
    << ClassMatch(0, 240, "iso7816_ins", FALSE),
       ClassMatch(128, 224, "iso7816_ins", FALSE),
       ClassMatch(176, 240, "iso7816_ins", FALSE),
       ClassMatch(192, 240, "iso7816_ins", FALSE) >>

osim_gsm1111_cic_profile ==
    << ClassMatch(160, 255, "gsm1111_ins", FALSE) >>

osim_uicc_cic_profile ==
    << ClassMatch(128, 255, "uicc_ins_80", FALSE),
       ClassMatch(0, 240, "uicc_ins_046", TRUE),
       ClassMatch(64, 240, "uicc_ins_046", TRUE),
       ClassMatch(96, 240, "uicc_ins_046", TRUE),
       ClassMatch(128, 240, "uicc_ins_8ce", FALSE),
       ClassMatch(192, 240, "uicc_ins_8ce", FALSE),
       ClassMatch(224, 240, "uicc_ins_8ce", FALSE) >>

osim_uicc_sim_cic_profile ==
    osim_gsm1111_cic_profile \o osim_uicc_cic_profile

ProfileNames == {"ISO 7816-4", "GSM SIM", "UICC", "UICC+SIM"}

\* avail_profiles, keyed by profile['name']
avail_profiles(n) ==
    CASE n = "ISO 7816-4" -> osim_iso7816_cic_profile
      [] n = "GSM SIM" -> osim_gsm1111_cic_profile
      [] n = "UICC" -> osim_uicc_cic_profile
      [] OTHER -> osim_uicc_sim_cic_profile

\* -------------------------------------------------------------- helper

\* The helper without the test for P2 = 0x80.
uicc046_helper_without_p2_80(header) ==
    LET ins == header[2]
        p1 == header[3]
        p2_cmd == ShiftRight(header[4], 5)
    IN  IF ins = 115
        THEN IF p1 = 0 THEN 2
             ELSE IF BitAnd(p1, 7) \in {1, 2, 3}
                  THEN IF p2_cmd = 0 THEN 3
                       ELSE IF p2_cmd = 5 \/ p2_cmd = 1 THEN 2
                       ELSE 0
                  ELSE IF BitAnd(p1, 7) = 4 THEN 3
                  ELSE 0
        ELSE IF ins = 117
        THEN IF BitAnd(p1, 4) # 0 THEN 3 ELSE 2
        ELSE 0

\* uicc046_cla_ins_helper(header): header is <<cla, ins, p1, p2, p3>>
uicc046_cla_ins_helper(header) ==
    LET ins == header[2]
        p1 == header[3]
        p2 == header[4]
        p2_cmd == ShiftRight(p2, 5)
    IN  IF ins = 115
        THEN IF p1 = 0 THEN 2
             ELSE IF BitAnd(p1, 7) \in {1, 2, 3}
                  THEN IF p2 = 128 \/ p2_cmd = 0 THEN 3
                       ELSE IF p2_cmd = 5 \/ p2_cmd = 1 THEN 2
                       ELSE 0
                  ELSE IF BitAnd(p1, 7) = 4 THEN 3
                  ELSE 0
        ELSE IF ins = 117
        THEN IF BitAnd(p1, 4) # 0 THEN 3 ELSE 2
        ELSE 0

\* ------------------------------------------------------------ classifier

KeyError == [name |-> "KeyError", case |-> -1]

\* One class match whose (cla & cla_mask) == cla: the lookup, and the
\* resolution of a case 5 entry, which is stored back into the table entry
\* (rc is the table's own dict). Gives [rc, tables, stop]: stop = the loop
\* returns (or raises) here.
ClassifyNoResolve(T, m, header) ==
    LET ins == header[2]
        tbl == T[m.instructions]
        r == IF ins \in DOMAIN tbl THEN tbl[ins] ELSE default_rc
    IN  [rc |-> r, tables |-> T, stop |-> r # default_rc]

ClassifyMatch(T, m, header) ==
    LET ins == header[2]
        tbl == T[m.instructions]
        r == IF ins \in DOMAIN tbl THEN tbl[ins] ELSE default_rc
    IN  IF r.case = 5
        THEN IF ~m.helper
             THEN [rc |-> KeyError, tables |-> T, stop |-> TRUE]
             ELSE LET c == uicc046_cla_ins_helper(header)
                      r2 == [r EXCEPT !.case = c]
                      T2 == [T EXCEPT ![m.instructions][ins] = r2]
                  IN  [rc |-> r2, tables |-> T2, stop |-> c >= 1 /\ c <= 4]
        ELSE [rc |-> r, tables |-> T, stop |-> r.case >= 1 /\ r.case <= 4]

RECURSIVE ClassifyFrom(_, _, _, _)
ClassifyFrom(T, prof, i, header) ==
    IF i > Len(prof)
    THEN [rc |-> default_rc, tables |-> T]
    ELSE IF BitAnd(header[1], prof[i].cla_mask) = prof[i].cla
         THEN LET s == ClassifyMatch(T, prof[i], header)
              IN  IF s.stop THEN [rc |-> s.rc, tables |-> s.tables]
                  ELSE ClassifyFrom(s.tables, prof, i + 1, header)
         ELSE ClassifyFrom(T, prof, i + 1, header)

\* The loop stopped at the first class match, whatever its lookup gives.
ClassifyFirstMatchOnly(T, pname, header) ==
    LET prof == avail_profiles(pname)
        hit == {i \in 1..Len(prof) :
                   BitAnd(header[1], prof[i].cla_mask) = prof[i].cla}
    IN  IF hit = {} THEN [rc |-> default_rc, tables |-> T]
        ELSE LET i == CHOOSE j \in hit : \A k \in hit : j <= k
                 s == ClassifyMatch(T, prof[i], header)
             IN  [rc |-> IF s.stop THEN s.rc ELSE default_rc,
                  tables |-> s.tables]

\* classify_apdu(header) of a classifier with profile pname on tables T:
\* [rc |-> the result, tables |-> the tables afterwards]
classify_apdu(T, pname, header) ==
    ClassifyFrom(T, avail_profiles(pname), 1, header)

\* --------------------------------------------- classifier: specification

\* Headers handed to the classifier. P1 and P2 are varied for the two
\* instructions the helper resolves; the other headers differ in CLA and INS.
ClaSet == {0, 64, 128, 129, 160, 192}
InsSet == {115, 117, 242, 16, 164, 153}
P2Set == {0, 31, 32, 64, 128, 129, 160}

HelperHeaders ==
    {<<c, i, p1, p2, 8>> : c \in {0}, i \in {115, 117}, p1 \in 0..MaxP1,
                           p2 \in P2Set}

PlainHeaders == {<<c, i, 0, 0, 8>> : c \in ClaSet, i \in InsSet}

Headers == HelperHeaders \cup PlainHeaders \cup {<<0, 115, 1, 128, 16>>}

NoHeader == <<>>

InitClassifier ==
    /\ ins_tables = LoadedTables
    /\ profile \in ProfileNames
    /\ hdr = NoHeader
    /\ rc = NoEntry

\* ApduHelper(profile_name): another classifier instance; the tables are
\* class attributes and stay as they are.
NewClassifier(pname) ==
    /\ profile' = pname
    /\ hdr' = NoHeader
    /\ rc' = NoEntry
    /\ UNCHANGED ins_tables
    /\ UNCHANGED <<fvars, vvars, rvars>>

Classify(header) ==
    LET r == classify_apdu(ins_tables, profile, header)
    IN  /\ hdr' = header
        /\ rc' = r.rc
        /\ ins_tables' = r.tables
        /\ UNCHANGED profile
        /\ UNCHANGED <<fvars, vvars, rvars>>

NextClassify ==
    \/ \E pname \in ProfileNames : NewClassifier(pname)
    \/ \E header \in Headers : Classify(header)

\* ------------------------------------------------ GET RESPONSE fix-up

\* self._get_response_cache = None
NoCache == <<-1>>

\* handle_apdu raised instead of returning bytes
Raised == <<-2>>

\* bytearray item assignment: ret_sw[1] = v needs 0 <= v <= 255
FitsByte(v) == v >= 0 /\ v <= 255

\* The fix-up with a cache that is handed out once and then dropped.
FixUpOneShotCache(cache, apdu, expected_len, app) ==
    IF cache # NoCache /\ apdu[2] = 192
    THEN [ret |-> cache, cache |-> NoCache, called |-> FALSE,
          raised |-> FALSE]
    ELSE IF app = Raised
    THEN [ret |-> <<>>, cache |-> NoCache, called |-> TRUE, raised |-> TRUE]
    ELSE IF Len(app) = expected_len \/ Len(app) < SW_LEN
    THEN [ret |-> app, cache |-> NoCache, called |-> TRUE, raised |-> FALSE]
    ELSE IF ~FitsByte(Len(app) - SW_LEN)
    THEN [ret |-> <<>>, cache |-> app, called |-> TRUE, raised |-> TRUE]
    ELSE [ret |-> <<IF Len(app) > expected_len THEN 97 ELSE 108,
                    Len(app) - SW_LEN>>,
          cache |-> app, called |-> TRUE, raised |-> FALSE]

\* The fix-up that signals every length mismatch with 0x61 (more data).
FixUpAlwaysMoreData(cache, apdu, expected_len, app) ==
    IF cache # NoCache /\ apdu[2] = 192
    THEN [ret |-> cache, cache |-> cache, called |-> FALSE, raised |-> FALSE]
    ELSE IF app = Raised
    THEN [ret |-> <<>>, cache |-> NoCache, called |-> TRUE, raised |-> TRUE]
    ELSE IF Len(app) = expected_len \/ Len(app) < SW_LEN
    THEN [ret |-> app, cache |-> NoCache, called |-> TRUE, raised |-> FALSE]
    ELSE IF ~FitsByte(Len(app) - SW_LEN)
    THEN [ret |-> <<>>, cache |-> app, called |-> TRUE, raised |-> TRUE]
    ELSE [ret |-> <<97, Len(app) - SW_LEN>>, cache |-> app, called |-> TRUE,
          raised |-> FALSE]

\* handle_apdu_with_get_response_fix(apdu, expected_len) with the cache as
\* it stands and app what handle_apdu(apdu) does when called (the bytes it
\* returns, or Raised). Gives the bytes returned, the cache afterwards,
\* whether handle_apdu was called and whether the call ended in an exception.
handle_apdu_with_get_response_fix(cache, apdu, expected_len, app) ==
    IF cache # NoCache /\ apdu[2] = 192
    THEN [ret |-> cache, cache |-> cache, called |-> FALSE, raised |-> FALSE]
    ELSE IF app = Raised
    THEN [ret |-> <<>>, cache |-> NoCache, called |-> TRUE, raised |-> TRUE]
    ELSE IF Len(app) = expected_len
    THEN [ret |-> app, cache |-> NoCache, called |-> TRUE, raised |-> FALSE]
    ELSE IF Len(app) < SW_LEN
    THEN [ret |-> app, cache |-> NoCache, called |-> TRUE, raised |-> FALSE]
    ELSE IF Len(app) > expected_len
    THEN IF FitsByte(Len(app) - SW_LEN)
         THEN [ret |-> <<97, Len(app) - SW_LEN>>, cache |-> app,
               called |-> TRUE, raised |-> FALSE]
         ELSE [ret |-> <<>>, cache |-> app, called |-> TRUE, raised |-> TRUE]
    ELSE IF FitsByte(Len(app) - 2)
         THEN [ret |-> <<108, Len(app) - 2>>, cache |-> app,
               called |-> TRUE, raised |-> FALSE]
         ELSE [ret |-> <<>>, cache |-> app, called |-> TRUE, raised |-> TRUE]

\* A response of n bytes: data bytes d, then SW 90 00 when n >= 2
Response(n, d) ==
    [i \in 1..n |-> IF n >= 2 /\ i = n - 1 THEN 144
                    ELSE IF n >= 2 /\ i = n THEN 0 ELSE d]

\* Lengths around the largest value a byte of the returned SW can hold
LongLens == {257, 258, 259}

\* What the application's handle_apdu may do, described by the length and
\* the data byte of the response it returns (len -1: it raises)
AppRaises == [len |-> -1, d |-> 0]

AppOutcomes ==
    [len : (0..MaxRespLen) \cup LongLens, d : {170, 187}] \cup {AppRaises}

AppBytes(out) == IF out = AppRaises THEN Raised ELSE Response(out.len, out.d)

\* APDUs handed to the fix-up: GET RESPONSE, SELECT (with data), READ BINARY
FixApdus == {<<0, 192, 0, 0, 8>>, <<0, 164, 0, 4, 2, 63, 0>>,
             <<0, 176, 0, 0, 3>>}

\* expected_len as _rx_apdu gives it: SW only, SW + P3, SW + 256
ExpectedLens == {2, 5, 258}

NoCall == [ins |-> -1, expected_len |-> 0, app |-> AppRaises, ret |-> <<>>,
           called |-> FALSE, raised |-> FALSE, served |-> 0]

InitFix ==
    /\ get_response_cache = NoCache
    /\ fx = NoCall

\* One call of handle_apdu_with_get_response_fix; out is what handle_apdu
\* does if it gets called.
FixCall(apdu, expected_len, out) ==
    LET r == handle_apdu_with_get_response_fix(get_response_cache, apdu,
                                               expected_len, AppBytes(out))
    IN  /\ ~r.called => (fx.served < MaxGets /\ out = AppRaises)
        /\ get_response_cache' = r.cache
        /\ fx' = [ins |-> apdu[2], expected_len |-> expected_len,
                  app |-> out,
                  ret |-> r.ret,
                  called |-> r.called, raised |-> r.raised,
                  served |-> IF r.called THEN 0 ELSE fx.served + 1]
        /\ UNCHANGED <<cvars, vvars, rvars>>

NextFix ==
    \E apdu \in FixApdus, expected_len \in ExpectedLens, out \in AppOutcomes :
        FixCall(apdu, expected_len, out)

\* ------------------------------------------------------ link parameters

RFU == -1

TBL_CLOCKRATECONVERSION ==
    <<372, 372, 558, 744, 1116, 1488, 1860, RFU, RFU, 512, 768, 1024, 1536,
      2048, RFU, RFU, RFU>>

TBL_BITRATEFACTOR ==
    <<RFU, 1, 2, 4, 8, 16, 32, RFU, 12, 20, RFU, RFU, RFU, RFU, RFU, RFU>>

\* _calculate_f / _calculate_d (indices count from 0 in the source)
calculate_f(f) == TBL_CLOCKRATECONVERSION[f + 1]

calculate_d(d) == TBL_BITRATEFACTOR[d + 1]

\* Python's round() of the quotient n / d (d > 0): to the nearest integer,
\* a tie to the even one
Round(n, d) ==
    LET q == n \div d
        r == n % d
    IN  IF 2 * r > d \/ (2 * r = d /\ q % 2 = 1) THEN q + 1 ELSE q

\* _calculate_baudrate: round(self._clk / F * D); RFU where a reserved F or
\* D makes the arithmetic fail (TypeError)
calculate_baudrate(c, f, d) ==
    IF calculate_f(f) = RFU \/ calculate_d(d) = RFU THEN RFU
    ELSE Round(c * calculate_d(d), calculate_f(f))

\* pps_sent reading FI from the low and DI from the high nibble
pps_sent_nibbles_swapped(pps, f, d) ==
    IF Len(pps) < 1 \/ pps[1] # PPS_BYTE \/ Len(pps) < 3
    THEN [ok |-> FALSE, fi |-> f, di |-> d]
    ELSE LET nf == BitAnd(pps[3], 15)
             nd == BitAnd(ShiftRight(pps[3], 4), 15)
         IN  [ok |-> calculate_f(nf) # RFU /\ calculate_d(nd) # RFU,
              fi |-> nf, di |-> nd]

\* pps_sent(pps): [ok, fi, di] with the link parameters as it leaves them.
\* It fails on a missing byte (IndexError), on pps[0] != 0xFF
\* (ProtocolError), and in _calculate_baudrate on a reserved F or D
\* (TypeError), in the last case with fi and di already overwritten.
pps_sent(pps, f, d) ==
    IF Len(pps) < 1 \/ pps[1] # PPS_BYTE \/ Len(pps) < 3
    THEN [ok |-> FALSE, fi |-> f, di |-> d]
    ELSE LET nf == BitAnd(ShiftRight(pps[3], 4), 15)
             nd == BitAnd(pps[3], 15)
         IN  [ok |-> calculate_f(nf) # RFU /\ calculate_d(nd) # RFU,
              fi |-> nf, di |-> nd]

RECURSIVE Gcd(_, _)
Gcd(a, b) == IF b = 0 THEN a ELSE Gcd(b, a % b)

\* The fraction n / d in lowest terms
Fraction(n, d) == [num |-> n \div Gcd(n, d), den |-> d \div Gcd(n, d)]

\* get_waiting_time without the division by D in the work etu
get_waiting_time_etu_without_d(c, f, d, w) ==
    IF calculate_f(f) = RFU \/ calculate_d(d) = RFU
    THEN [num |-> RFU, den |-> 1]
    ELSE Fraction(960 * calculate_d(d) * w * calculate_f(f), c)

\* get_waiting_time at clock c, FI f, DI d, WI w, in seconds, as a fraction:
\* (960 * D * WI) * _get_work_etu() with _get_work_etu() = F / clk / D.
\* A reserved F or D makes the arithmetic fail (TypeError): num is RFU.
get_waiting_time(c, f, d, w) ==
    IF calculate_f(f) = RFU \/ calculate_d(d) = RFU
    THEN [num |-> RFU, den |-> 1]
    ELSE Fraction(960 * calculate_d(d) * w * calculate_f(f),
                  c * calculate_d(d))

\* ----------------------------------------------------------- the port

\* self._sl.read(n) by either thread: a pending cancel_read() ends the read
\* with nothing; n bytes are taken when the buffer holds them; otherwise the
\* read ends on its timeout with what is there.
ReadOutcome(n) ==
    IF n = 0 THEN [data |-> <<>>, inbuf |-> inbuf, cancel |-> cancel]
    ELSE IF cancel THEN [data |-> <<>>, inbuf |-> inbuf, cancel |-> FALSE]
    ELSE IF Len(inbuf) >= n
    THEN [data |-> SubSeq(inbuf, 1, n),
          inbuf |-> SubSeq(inbuf, n + 1, Len(inbuf)), cancel |-> FALSE]
    ELSE [data |-> inbuf, inbuf |-> <<>>, cancel |-> FALSE]

\* The bytes bs as they appear on the line, written by who
OnLine(who, bs) == [i \in 1..Len(bs) |-> <<who, bs[i]>>]

\* ------------------------------------------------------- virtual card

\* SerialSimLink._calculate_clk at baudrate=9600: 9600 * 1 * 372
READER_CLOCK == 3571200

\* VirtualSim.__init__: clock=3842000
VSIM_CLOCK == 3842000

ATR_SLOW ==
    <<59, 159, 1, 128, 31, 198, 128, 49, 224, 115, 254, 33, 27, 102, 208, 2,
      33, 171, 17, 24, 3, 21>>

ATR_OFFER_PPS ==
    <<59, 159, 150, 128, 31, 198, 128, 49, 224, 115, 254, 33, 27, 102, 208, 2,
      33, 171, 17, 24, 3, 130>>

NoTx == [buf |-> <<>>, sent |-> 0, chunks |-> 0]

NoWxt == [pc |-> "none", stop |-> FALSE, n |-> 0]

\* What the counterpart may send: PPS requests (FI/DI 9/6; a reserved DI; a
\* wrong first byte), APDU headers (READ BINARY, GET RESPONSE, UPDATE BINARY
\* with one data byte, an unknown instruction) and command data.
PpsRequests == {<<255, 16, 150, 121>>, <<255, 16, 151, 120>>,
                <<0, 16, 150, 121>>}

VsimHeaders == {<<160, 176, 0, 0, 1>>, <<160, 192, 0, 0, 1>>,
                <<160, 214, 0, 0, 1>>, <<160, 153, 0, 0, 0>>}

\* What handle_apdu of the application may do
VsimAppOutcomes == [len : {2, 3}, d : {170}] \cup {AppRaises}

InitVsim ==
    /\ inbuf = <<>>
    /\ line = <<>>
    /\ cancel = FALSE
    /\ atr = <<>>
    /\ fi = 0
    /\ di = 1
    /\ pc = "run"
    /\ alive = FALSE
    /\ restart = TRUE
    /\ do_pps \in BOOLEAN
    /\ phase = "none"
    /\ tx = NoTx
    /\ cur_apdu = <<>>
    /\ cur_le = 0
    /\ wxt = [i \in 1..MaxApdus |-> NoWxt]
    /\ napdu = 0
    /\ sessions = 0
    /\ msent = FALSE
    /\ stop_called = FALSE
    /\ stop_phase = "none"

\* except Exception / finally of _run_apdu_loop, then run's statement after
\* the call: the new values of <<alive, restart, do_pps, pc>>
ApduLoopExcept ==
    /\ restart' = (IF ~alive THEN FALSE ELSE restart)
    /\ alive' = FALSE
    /\ do_pps' = FALSE
    /\ pc' = "run"

\* run: while(self._restart)
RunCheck ==
    /\ pc = "run"
    /\ pc' = IF restart THEN "wait_for_reset" ELSE "done"
    /\ UNCHANGED <<alive, restart, do_pps, phase, tx, cur_apdu, cur_le>>
    /\ UNCHANGED <<cvars, fvars, pvars, wvars, evars, rvars>>

\* run: self.wait_for_reset() returns (the counterpart asserted reset)
WaitForReset ==
    /\ pc = "wait_for_reset"
    /\ sessions < MaxSessions
    /\ sessions' = sessions + 1
    /\ pc' = "send_atr"
    /\ UNCHANGED <<alive, restart, do_pps, phase, tx, cur_apdu, cur_le>>
    /\ UNCHANGED <<cvars, fvars, pvars, wvars, msent, stop_called, stop_phase, rvars>>

\* self._sl.reset_card() of send_atr: SerialBase defines no reset_card; what
\* the virtual card needs of it is nothing beyond the flush that follows.
SerialBase_reset_card == TRUE

\* send_atr: reset_card, reset_input_buffer, the choice of the ATR and the
\* call of tx_bytes(atr)
SendAtr ==
    /\ pc = "send_atr"
    /\ SerialBase_reset_card
    /\ inbuf' = <<>>
    /\ line' = <<>>
    /\ tx' = [buf |-> IF do_pps THEN ATR_OFFER_PPS ELSE ATR_SLOW,
              sent |-> 0, chunks |-> 0]
    /\ phase' = "atr"
    /\ pc' = "tx_write"
    /\ UNCHANGED <<alive, restart, do_pps, cur_apdu, cur_le>>
    /\ UNCHANGED <<cvars, fvars, cancel, atr, fi, di, wvars, evars, rvars>>

\* tx_bytes(buf) called: where the thread goes (nothing to write: straight
\* to the read of the echo)
StartTx(buf) == IF buf = <<>> THEN "tx_echo" ELSE "tx_write"

\* tx_bytes: self._sl.write(buf). The port takes the buffer in one piece or
\* in several (at most MaxChunks); every byte taken goes out on the line and
\* comes back into the input buffer as its echo. Nothing serialises this
\* with a write of another thread.
TxWrite ==
    /\ pc = "tx_write"
    /\ \E k \in 1..(Len(tx.buf) - tx.sent) :
        /\ tx.chunks + 1 < MaxChunks \/ tx.sent + k = Len(tx.buf)
        /\ line' = line \o OnLine(phase, SubSeq(tx.buf, tx.sent + 1, tx.sent + k))
        /\ inbuf' = inbuf \o SubSeq(tx.buf, tx.sent + 1, tx.sent + k)
        /\ tx' = [tx EXCEPT !.sent = tx.sent + k, !.chunks = tx.chunks + 1]
        /\ pc' = IF tx.sent + k = Len(tx.buf) THEN "tx_echo" ELSE "tx_write"
    /\ UNCHANGED <<alive, restart, do_pps, phase, cur_apdu, cur_le>>
    /\ UNCHANGED <<cvars, fvars, cancel, atr, fi, di, wvars, evars, rvars>>

\* send_atr: the echo read of tx_bytes(atr), then atr_recieved(atr)
TxEchoAtr ==
    /\ pc = "tx_echo" /\ phase = "atr"
    /\ LET o == ReadOutcome(Len(tx.buf))
       IN  /\ inbuf' = o.inbuf
           /\ cancel' = o.cancel
           /\ IF o.data = tx.buf /\ tx.buf[1] = ATR_BYTE
              THEN /\ atr' = tx.buf
                   /\ pc' = IF do_pps THEN "pps_rx" ELSE "send_atr_end"
              ELSE /\ atr' = atr
                   /\ pc' = "dead"
    /\ msent' = FALSE
    /\ UNCHANGED <<alive, restart, do_pps, phase, tx, cur_apdu, cur_le>>
    /\ UNCHANGED <<cvars, fvars, line, fi, di, wvars, sessions, stop_called,
                   stop_phase, rvars>>

\* send_atr: pps_request = self._sl.rx_bytes(PPS_LEN), tx_bytes(pps_request)
PpsRx ==
    /\ pc = "pps_rx"
    /\ LET o == ReadOutcome(PPS_LEN)
       IN  /\ inbuf' = o.inbuf
           /\ cancel' = o.cancel
           /\ tx' = [buf |-> o.data, sent |-> 0, chunks |-> 0]
           /\ pc' = StartTx(o.data)
    /\ phase' = "pps"
    /\ UNCHANGED <<alive, restart, do_pps, cur_apdu, cur_le>>
    /\ UNCHANGED <<cvars, fvars, line, atr, fi, di, wvars, evars, rvars>>

\* send_atr: the echo read of tx_bytes(pps_request), then pps_sent
TxEchoPps ==
    /\ pc = "tx_echo" /\ phase = "pps"
    /\ LET o == ReadOutcome(Len(tx.buf))
           r == pps_sent(tx.buf, fi, di)
       IN  /\ inbuf' = o.inbuf
           /\ cancel' = o.cancel
           /\ IF o.data = tx.buf
              THEN /\ fi' = r.fi
                   /\ di' = r.di
                   /\ baud' = IF r.ok
                              THEN calculate_baudrate(clk, r.fi, r.di)
                              ELSE baud
                   /\ pc' = IF r.ok THEN "send_atr_end" ELSE "dead"
              ELSE /\ UNCHANGED <<fi, di, baud>>
                   /\ pc' = "dead"
    /\ UNCHANGED <<alive, restart, do_pps, phase, tx, cur_apdu, cur_le>>
    /\ UNCHANGED <<cvars, fvars, line, atr, wvars, evars, clk, wcvars, rcvars, lk, rdr, btvars>>

\* send_atr: self._initialized = True; _run_apdu_loop: self._alive = True
SendAtrEnd ==
    /\ pc = "send_atr_end"
    /\ alive' = TRUE
    /\ pc' = "loop"
    /\ UNCHANGED <<restart, do_pps, phase, tx, cur_apdu, cur_le>>
    /\ UNCHANGED <<cvars, fvars, pvars, wvars, evars, rvars>>

\* _run_apdu_loop: while self._alive; when it ends, finally and run's
\* self._do_pps = False
LoopCheck ==
    /\ pc = "loop"
    /\ IF alive
       THEN /\ pc' = "rx_header"
            /\ line' = <<>>
            /\ msent' = FALSE
            /\ UNCHANGED <<alive, do_pps>>
       ELSE /\ pc' = "run"
            /\ alive' = FALSE
            /\ do_pps' = FALSE
            /\ UNCHANGED <<line, msent>>
    /\ UNCHANGED <<restart, phase, tx, cur_apdu, cur_le>>
    /\ UNCHANGED <<cvars, fvars, inbuf, cancel, atr, fi, di, wvars, sessions,
                   stop_called, stop_phase, rvars>>

\* _handle_apdu_with_wxt: _create_wxt_thread (a new thread and its Event)
CreateWxt == [wxt EXCEPT ![napdu + 1] = [pc |-> "wait", stop |-> FALSE, n |-> 0]]

\* _rx_apdu: the header is read and classified. Case 1 and 2 (and 3/4 with
\* P3 = 0) go on to _handle_apdu_with_wxt; case 3/4 sends the procedure
\* byte; a header cut short fails to unpack and any other case ends in
\* SerialBase.MAX_LENGTH, which SerialBase does not define.
RxHeader ==
    /\ pc = "rx_header"
    /\ napdu < MaxApdus
    /\ LET o == ReadOutcome(HEADER_LEN)
           h == o.data
           c == classify_apdu(ins_tables, profile, h)
       IN  /\ inbuf' = o.inbuf
           /\ cancel' = o.cancel
           /\ IF Len(h) # HEADER_LEN
              THEN /\ ApduLoopExcept
                   /\ UNCHANGED <<cvars, phase, tx, cur_apdu, cur_le, wvars>>
              ELSE /\ hdr' = h
                   /\ rc' = c.rc
                   /\ ins_tables' = c.tables
                   /\ UNCHANGED profile
                   /\ IF c.rc.case \in {1, 2} \/ (c.rc.case \in {3, 4} /\ h[5] = 0)
                      THEN /\ cur_apdu' = h
                           /\ cur_le' = IF c.rc.case = 2
                                        THEN SW_LEN + (IF h[5] = 0 THEN 256 ELSE h[5])
                                        ELSE SW_LEN
                           /\ wxt' = CreateWxt
                           /\ napdu' = napdu + 1
                           /\ pc' = "handler"
                           /\ UNCHANGED <<alive, restart, do_pps, phase, tx>>
                      ELSE IF c.rc.case \in {3, 4}
                      THEN /\ cur_apdu' = h
                           /\ cur_le' = SW_LEN
                           /\ tx' = [buf |-> <<h[2]>>, sent |-> 0, chunks |-> 0]
                           /\ phase' = "proc"
                           /\ pc' = "tx_write"
                           /\ UNCHANGED <<alive, restart, do_pps, wvars>>
                      ELSE /\ ApduLoopExcept
                           /\ UNCHANGED <<phase, tx, cur_apdu, cur_le, wvars>>
    /\ UNCHANGED <<fvars, line, atr, fi, di, evars, rvars>>

\* _rx_apdu: the echo read of tx_bytes(bytes([ins]))
TxEchoProc ==
    /\ pc = "tx_echo" /\ phase = "proc"
    /\ LET o == ReadOutcome(Len(tx.buf))
       IN  /\ inbuf' = o.inbuf
           /\ cancel' = o.cancel
           /\ IF o.data = tx.buf
              THEN /\ pc' = "rx_data"
                   /\ UNCHANGED <<alive, restart, do_pps>>
              ELSE ApduLoopExcept
    /\ msent' = FALSE
    /\ UNCHANGED <<phase, tx, cur_apdu, cur_le>>
    /\ UNCHANGED <<cvars, fvars, line, atr, fi, di, wvars, sessions,
                   stop_called, stop_phase, rvars>>

\* _rx_apdu: data = self._sl.rx_bytes(lc); apdu += data, then on to
\* _handle_apdu_with_wxt
RxData ==
    /\ pc = "rx_data"
    /\ LET o == ReadOutcome(cur_apdu[5])
       IN  /\ inbuf' = o.inbuf
           /\ cancel' = o.cancel
           /\ cur_apdu' = cur_apdu \o o.data
    /\ wxt' = CreateWxt
    /\ napdu' = napdu + 1
    /\ pc' = "handler"
    /\ UNCHANGED <<alive, restart, do_pps, phase, tx, cur_le>>
    /\ UNCHANGED <<cvars, fvars, line, atr, fi, di, evars, rvars>>

\* The record kept of a handle_apdu_with_get_response_fix call
FxRecord(a, expected_len, out, r) ==
    [ins |-> a[2], expected_len |-> expected_len, app |-> out, ret |-> r.ret,
     called |-> r.called, raised |-> r.raised,
     served |-> IF r.called THEN 0 ELSE fx.served + 1]

\* _handle_apdu_with_wxt: the application's handler returns or raises (out),
\* the fix-up, the instruction byte put before a response longer than 2,
\* finally stop_wxt_thread.set(); then the call of tx_bytes(response)
HandlerReturn(out) ==
    /\ pc = "handler"
    /\ LET r == handle_apdu_with_get_response_fix(get_response_cache, cur_apdu,
                                                  cur_le, AppBytes(out))
           response == IF Len(r.ret) > 2 THEN <<cur_apdu[2]>> \o r.ret ELSE r.ret
       IN  /\ ~r.called => out = AppRaises
           /\ get_response_cache' = r.cache
           /\ fx' = FxRecord(cur_apdu, cur_le, out, r)
           /\ IF r.raised
              THEN /\ ApduLoopExcept
                   /\ UNCHANGED <<phase, tx>>
              ELSE /\ tx' = [buf |-> response, sent |-> 0, chunks |-> 0]
                   /\ phase' = "resp"
                   /\ pc' = StartTx(response)
                   /\ UNCHANGED <<alive, restart, do_pps>>
    /\ wxt' = [wxt EXCEPT ![napdu].stop = TRUE]
    /\ UNCHANGED <<cvars, pvars, cur_apdu, cur_le, napdu, evars, rvars>>

\* _run_apdu_loop: the echo read of tx_bytes(response)
TxEchoResp ==
    /\ pc = "tx_echo" /\ phase = "resp"
    /\ LET o == ReadOutcome(Len(tx.buf))
       IN  /\ inbuf' = o.inbuf
           /\ cancel' = o.cancel
           /\ IF o.data = tx.buf
              THEN /\ pc' = "loop"
                   /\ UNCHANGED <<alive, restart, do_pps>>
              ELSE ApduLoopExcept
    /\ UNCHANGED <<phase, tx, cur_apdu, cur_le>>
    /\ UNCHANGED <<cvars, fvars, line, atr, fi, di, wvars, evars, rvars>>

\* ---- the WXT thread of APDU i (loop of _create_wxt_thread)

\* stop.wait(self._get_wxt_timeout()) times out with the event not set
WxtTimeout(i) ==
    /\ wxt[i].pc = "wait"
    /\ ~wxt[i].stop
    /\ wxt[i].n < MaxWxt
    /\ wxt' = [wxt EXCEPT ![i].pc = "send"]
    /\ UNCHANGED <<cvars, fvars, pvars, dvars, napdu, evars, rvars>>

\* stop.wait returns True: the loop ends
WxtExit(i) ==
    /\ wxt[i].pc = "wait"
    /\ wxt[i].stop
    /\ wxt' = [wxt EXCEPT ![i].pc = "exit"]
    /\ UNCHANGED <<cvars, fvars, pvars, dvars, napdu, evars, rvars>>

\* _send_wxt: tx_bytes(bytes([WXT_BYTE])), the write
WxtWrite(i) ==
    /\ wxt[i].pc = "send"
    /\ line' = line \o OnLine("wxt", <<WXT_BYTE>>)
    /\ inbuf' = inbuf \o <<WXT_BYTE>>
    /\ wxt' = [wxt EXCEPT ![i].pc = "echo", ![i].n = wxt[i].n + 1]
    /\ UNCHANGED <<cvars, fvars, cancel, atr, fi, di, dvars, napdu, evars, rvars>>

\* _send_wxt: tx_bytes, the echo read; a ProtocolError is caught and logged
WxtEcho(i) ==
    /\ wxt[i].pc = "echo"
    /\ LET o == ReadOutcome(1)
       IN  /\ inbuf' = o.inbuf
           /\ cancel' = o.cancel
    /\ wxt' = [wxt EXCEPT ![i].pc = "wait"]
    /\ UNCHANGED <<cvars, fvars, line, atr, fi, di, dvars, napdu, evars, rvars>>

\* ---- the counterpart (modem) and the owner of the object

ModemSendPps(p) ==
    /\ pc = "pps_rx"
    /\ ~msent
    /\ inbuf' = inbuf \o p
    /\ msent' = TRUE
    /\ UNCHANGED <<cvars, fvars, line, cancel, atr, fi, di, dvars, wvars,
                   sessions, stop_called, stop_phase, rvars>>

ModemSendHeader(h) ==
    /\ pc = "rx_header"
    /\ ~msent
    /\ napdu < MaxApdus
    /\ inbuf' = inbuf \o h
    /\ msent' = TRUE
    /\ UNCHANGED <<cvars, fvars, line, cancel, atr, fi, di, dvars, wvars,
                   sessions, stop_called, stop_phase, rvars>>

ModemSendData ==
    /\ pc = "rx_data"
    /\ ~msent
    /\ inbuf' = inbuf \o [i \in 1..cur_apdu[5] |-> 63]
    /\ msent' = TRUE
    /\ UNCHANGED <<cvars, fvars, line, cancel, atr, fi, di, dvars, wvars,
                   sessions, stop_called, stop_phase, rvars>>

\* stop(): self._alive = False; self._sl.cancel_read()
Stop ==
    /\ ~stop_called
    /\ pc \notin {"done", "dead"}
    /\ alive' = FALSE
    /\ cancel' = TRUE
    /\ stop_called' = TRUE
    /\ stop_phase' = IF pc \in {"tx_write", "tx_echo"} THEN phase ELSE pc
    /\ UNCHANGED <<pc, restart, do_pps, phase, tx, cur_apdu, cur_le>>
    /\ UNCHANGED <<cvars, fvars, inbuf, line, atr, fi, di, wvars, sessions, msent, rvars>>

Next ==
    \/ RunCheck
    \/ WaitForReset
    \/ SendAtr
    \/ TxWrite
    \/ TxEchoAtr
    \/ PpsRx
    \/ TxEchoPps
    \/ SendAtrEnd
    \/ LoopCheck
    \/ RxHeader
    \/ TxEchoProc
    \/ RxData
    \/ \E out \in VsimAppOutcomes : HandlerReturn(out)
    \/ TxEchoResp
    \/ \E i \in 1..MaxApdus : WxtTimeout(i)
    \/ \E i \in 1..MaxApdus : WxtExit(i)
    \/ \E i \in 1..MaxApdus : WxtWrite(i)
    \/ \E i \in 1..MaxApdus : WxtEcho(i)
    \/ \E p \in PpsRequests : ModemSendPps(p)
    \/ \E h \in VsimHeaders : ModemSendHeader(h)
    \/ ModemSendData
    \/ Stop

\* ---------------------------------------------- reader: reset_card

\* Python's ^ on two bytes
BitXor(a, b) ==
    LET x(w) == IF Bit(a, w) # Bit(b, w) THEN w ELSE 0
    IN  x(1) + x(2) + x(4) + x(8) + x(16) + x(32) + x(64) + x(128)

\* pySim.utils.calculate_checksum_xor: the XOR of the bytes of bs
RECURSIVE calculate_checksum_xor(_)
calculate_checksum_xor(bs) ==
    IF bs = <<>> THEN 0
    ELSE BitXor(bs[1], calculate_checksum_xor(Tail(bs)))

\* get_pps_proposal on a stored ATR a: [err, pps]
get_pps_proposal(a) ==
    IF a = <<>> THEN [err |-> "NotInitializedError", pps |-> <<>>]
    ELSE IF Len(a) < 3 THEN [err |-> "IndexError", pps |-> <<>>]
    ELSE [err |-> "none",
          pps |-> <<PPS_BYTE, 16, a[3],
                    calculate_checksum_xor(<<PPS_BYTE, 16, a[3]>>)>>]

\* _reset_card, "while ord(b) == 0x3b: b = rx_byte()": what is left of the
\* stream s when the loop is left, the byte b taken last at its head;
\* <<>> when the stream ends inside the loop (b is then empty)
RECURSIVE SkipTs(_)
SkipTs(s) ==
    IF s = <<>> THEN <<>>
    ELSE IF s[1] = ATR_BYTE THEN SkipTs(Tail(s))
    ELSE s

\* _reset_card, for i in range(4): the interface bytes T0 announces
InterfaceBytes(t0) == Cardinality({i \in 0..3 : BitAnd(t0, 16 * (2 ^ i)) # 0})

\* _reset_card without its last loop: the bytes behind the historical bytes
\* are not stored
reset_card_core_without_extras(stream) ==
    IF stream = <<>> THEN [rv |-> "0", atr |-> <<>>, left |-> <<>>]
    ELSE IF stream[1] # ATR_BYTE
    THEN [rv |-> "-1", atr |-> <<>>, left |-> Tail(stream)]
    ELSE LET s == SkipTs(Tail(stream))
         IN  IF s = <<>>
             THEN [rv |-> "TypeError", atr |-> <<>>, left |-> <<>>]
             ELSE LET n == 1 + InterfaceBytes(s[1]) + BitAnd(s[1], 15)
                  IN  IF Len(s) < n
                      THEN [rv |-> "TypeError", atr |-> <<>>, left |-> <<>>]
                      ELSE [rv |-> "1",
                            atr |-> <<ATR_BYTE>> \o SubSeq(s, 1, n),
                            left |-> SubSeq(s, n + 1, Len(s))]

\* _reset_card from the first rx_byte on, the port delivering the bytes of
\* stream and then nothing (every further rx_byte times out): [rv, atr,
\* left]. rv is 1, 0 or -1 as returned, or TypeError where ord() is given
\* the empty result of a read that timed out; left is what stays unread.
reset_card_core(stream) ==
    IF stream = <<>> THEN [rv |-> "0", atr |-> <<>>, left |-> <<>>]
    ELSE IF stream[1] # ATR_BYTE
    THEN [rv |-> "-1", atr |-> <<>>, left |-> Tail(stream)]
    ELSE LET s == SkipTs(Tail(stream))
         IN  IF s = <<>>
             THEN [rv |-> "TypeError", atr |-> <<>>, left |-> <<>>]
             ELSE LET t0 == s[1]
                      ni == InterfaceBytes(t0)
                      nh == BitAnd(t0, 15)
                  IN  IF Len(s) < 1 + ni + nh
                      THEN [rv |-> "TypeError", atr |-> <<>>, left |-> <<>>]
                      ELSE [rv |-> "1",
                            atr |-> <<ATR_BYTE, t0>>
                                    \o SubSeq(s, 2, 1 + ni)
                                    \o SubSeq(s, 2 + ni, 1 + ni + nh)
                                    \o SubSeq(s, 2 + ni + nh, Len(s)),
                            left |-> <<>>]

\* What the line does during send_pps: the card answers with the proposal,
\* the port does not give the proposal back as its echo, the card answers
\* nothing, the card answers something else
PpsEvents == {"same", "bad_echo", "none", "other"}

\* send_pps applying the proposal before it looks at the response
send_pps_before_compare(a, f, d, b, c, ev) ==
    LET q == get_pps_proposal(a)
        resp == IF ev = "same" THEN q.pps
                ELSE IF ev = "other" THEN <<PPS_BYTE, 0, 255>>
                ELSE <<>>
        r == pps_sent(q.pps, f, d)
    IN  IF q.err # "none"
        THEN [out |-> q.err, fi |-> f, di |-> d, baud |-> b,
              proposal |-> q.pps, response |-> <<>>]
        ELSE [out |-> IF ev = "bad_echo" \/ resp # q.pps THEN "ProtocolError"
                      ELSE IF r.ok THEN "ok" ELSE "TypeError",
              fi |-> r.fi, di |-> r.di,
              baud |-> IF r.ok THEN calculate_baudrate(c, r.fi, r.di) ELSE b,
              proposal |-> q.pps,
              response |-> IF ev = "bad_echo" THEN <<>> ELSE resp]

\* send_pps with the stored ATR a and link parameters f, d, b (clock c).
\* [out, fi, di, baud, proposal, response]
send_pps(a, f, d, b, c, ev) ==
    LET q == get_pps_proposal(a)
        resp == IF ev = "same" THEN q.pps
                ELSE IF ev = "other" THEN <<PPS_BYTE, 0, 255>>
                ELSE <<>>
        r == pps_sent(q.pps, f, d)
        same == [out |-> "ProtocolError", fi |-> f, di |-> d, baud |-> b,
                 proposal |-> q.pps, response |-> <<>>]
    IN  IF q.err # "none" THEN [same EXCEPT !.out = q.err]
        ELSE IF ev = "bad_echo" THEN same
        ELSE IF resp # q.pps THEN [same EXCEPT !.response = resp]
        ELSE [out |-> IF r.ok THEN "ok" ELSE "TypeError",
              fi |-> r.fi, di |-> r.di,
              baud |-> IF r.ok THEN calculate_baudrate(c, r.fi, r.di) ELSE b,
              proposal |-> q.pps, response |-> resp]

\* What the port delivers of the bytes sent that the card sends at the
\* default link parameters, as it does after a reset: the bytes themselves
\* when the port runs at that speed, otherwise misread bytes
Received(sent) ==
    IF baud = calculate_baudrate(clk, DEFAULT_FI, DEFAULT_DI) THEN {sent}
    ELSE {<<>>, <<0>>, <<0, 0>>}

\* ATRs of cards, and other byte strings a card socket may answer a reset
\* with
CardAnswers ==
    {ATR_OFFER_PPS, <<ATR_BYTE, ATR_BYTE, ATR_BYTE, 16, 17>>,
     <<ATR_BYTE, 0>>, <<ATR_BYTE, 32, 0>>, <<ATR_BYTE, 16, 112>>,
     <<ATR_BYTE, 145, 148, 0, 1>>, <<3, 16, 17>>}

\* What arrives of s when the stream stops after at most MaxCut bytes
Prefixes(s) == {SubSeq(s, 1, k) : k \in 0..(IF Len(s) < MaxCut THEN Len(s) ELSE MaxCut)}

\* The answers, whole or stopping early
ResetStreams == CardAnswers \cup UNION {Prefixes(s) : s \in CardAnswers}

NoReset == [sent |-> <<>>, stream |-> <<>>, rv |-> "none", out |-> "none",
            do_pps |-> FALSE, proposal |-> <<>>, response |-> <<>>]

InitReset == rst = NoReset

\* reset_card(do_pps): _reset_card, the return value turned into
\* NoCardError / ProtocolError, then send_pps
ResetCard(sent, dopps, ev) ==
    \E stream \in Received(sent) :
      \E core \in {reset_card_core(stream)} :
      \E a \in {IF core.rv = "1" THEN core.atr ELSE atr} :
      \E p \in {send_pps(a, fi, di, baud, clk, ev)} :
        LET pps == core.rv = "1" /\ dopps
        IN  /\ atr' = a
            /\ fi' = IF pps THEN p.fi ELSE fi
            /\ di' = IF pps THEN p.di ELSE di
            /\ baud' = IF pps THEN p.baud ELSE baud
            /\ inbuf' = core.left
            /\ rst' = [sent |-> sent, stream |-> stream, rv |-> core.rv,
                       out |-> IF core.rv = "0" THEN "NoCardError"
                               ELSE IF core.rv = "-1" THEN "ProtocolError"
                               ELSE IF core.rv # "1" THEN core.rv
                               ELSE IF dopps THEN p.out ELSE "ok",
                       do_pps |-> dopps,
                       proposal |-> IF pps THEN p.proposal ELSE <<>>,
                       response |-> IF pps THEN p.response ELSE <<>>]
            /\ UNCHANGED <<cvars, fvars, line, cancel, dvars, wvars, evars,
                           clk, wcvars, lk, rdr, btvars, ap>>

NextReset ==
    \E sent \in ResetStreams, dopps \in BOOLEAN, ev \in PpsEvents :
        ResetCard(sent, dopps, ev)

\* ---------------------------------------------- link: pps_sent

\* No pps_sent call yet
NoPps == [pps |-> <<>>, ok |-> FALSE]

\* Clocks a SerialBase is made with
Clocks == {READER_CLOCK, VSIM_CLOCK}

\* PPS1 values given to pps_sent: every FI with some usable and reserved DI
Pps1Values == {16 * x + y : x \in 0..15, y \in 1..MaxDi}

\* Arguments of pps_sent
PpsArguments ==
    {<<PPS_BYTE, 16, v, calculate_checksum_xor(<<PPS_BYTE, 16, v>>)>> :
        v \in Pps1Values}
    \cup {<<0, 16, 150, 134>>, <<PPS_BYTE, 16>>}

\* SerialBase(device, clock): a port object with the default parameters
NewSerialBase(c) ==
    /\ clk' = c
    /\ baud' = calculate_baudrate(c, DEFAULT_FI, DEFAULT_DI)
    /\ fi' = DEFAULT_FI
    /\ di' = DEFAULT_DI
    /\ atr' = <<>>
    /\ lk' = NoPps
    /\ UNCHANGED <<cvars, fvars, inbuf, line, cancel, dvars, wvars, evars,
                   wcvars, rcvars, rdr, btvars>>

\* pps_sent(p) called on it
LinkPpsSent(p) ==
    \E r \in {pps_sent(p, fi, di)} :
        /\ fi' = r.fi
        /\ di' = r.di
        /\ baud' = IF r.ok THEN calculate_baudrate(clk, r.fi, r.di) ELSE baud
        /\ lk' = [pps |-> p, ok |-> r.ok]
        /\ UNCHANGED <<cvars, fvars, inbuf, line, cancel, atr, dvars, wvars,
                       evars, clk, wcvars, rcvars, rdr, btvars>>

NextLink ==
    \/ \E c \in Clocks : NewSerialBase(c)
    \/ \E p \in PpsArguments : LinkPpsSent(p)

\* ------------------------------------------- reader: wait_for_card

\* How a reset_card call made by wait_for_card ends
ResetOutcomes == {"ok", "NoCardError", "ProtocolError"}

\* No wait_for_card call yet
InitWfc ==
    /\ wfc_pc = "idle"
    /\ newcardonly = FALSE
    /\ existing = FALSE
    /\ pe = 0
    /\ resets = <<>>

\* wait_for_card(timeout, newcardonly) is called (timeout not None)
WfcCall(nco) ==
    /\ wfc_pc \in {"idle", "returned", "NoCardError", "ProtocolError"}
    /\ wfc_pc' = "direct"
    /\ newcardonly' = nco
    /\ existing' = FALSE
    /\ pe' = 0
    /\ resets' = <<>>
    /\ UNCHANGED <<cvars, fvars, vvars, lvars, rcvars, lk, rdr, btvars>>

\* wait_for_card, "Direct try": only NoCardError is caught
WfcDirectTry(o) ==
    /\ wfc_pc = "direct"
    /\ resets' = Append(resets, o)
    /\ IF o = "ok"
       THEN /\ wfc_pc' = IF newcardonly THEN "poll" ELSE "returned"
            /\ existing' = newcardonly
       ELSE /\ wfc_pc' = IF o = "NoCardError" THEN "poll" ELSE o
            /\ UNCHANGED existing
    /\ UNCHANGED <<newcardonly, pe>>
    /\ UNCHANGED <<cvars, fvars, vvars, lvars, rcvars, lk, rdr, btvars>>

\* wait_for_card, one round of the polling loop (time.time() < mt)
WfcPoll(o) ==
    /\ wfc_pc = "poll"
    /\ Len(resets) < MaxResets
    /\ resets' = Append(resets, o)
    /\ IF o = "ok"
       THEN /\ wfc_pc' = IF existing THEN "poll" ELSE "returned"
            /\ UNCHANGED <<existing, pe>>
       ELSE IF o = "NoCardError"
       THEN /\ existing' = FALSE
            /\ UNCHANGED <<wfc_pc, pe>>
       ELSE IF existing
       THEN /\ existing' = FALSE
            /\ UNCHANGED <<wfc_pc, pe>>
       ELSE /\ pe' = pe + 1
            /\ wfc_pc' = IF pe + 1 > 2 THEN "ProtocolError" ELSE "poll"
            /\ UNCHANGED existing
    /\ UNCHANGED newcardonly
    /\ UNCHANGED <<cvars, fvars, vvars, lvars, rcvars, lk, rdr, btvars>>

\* wait_for_card: the loop ends on time.time() >= mt, raise NoCardError()
WfcTimeout ==
    /\ wfc_pc = "poll"
    /\ wfc_pc' = "NoCardError"
    /\ UNCHANGED <<newcardonly, existing, pe, resets>>
    /\ UNCHANGED <<cvars, fvars, vvars, lvars, rcvars, lk, rdr, btvars>>

NextWfc ==
    \/ \E nco \in BOOLEAN : WfcCall(nco)
    \/ \E o \in ResetOutcomes : WfcDirectTry(o)
    \/ \E o \in ResetOutcomes : WfcPoll(o)
    \/ WfcTimeout

\* ------------------------------------------------- reader: tx_bytes

\* Bytes on the reader's input, each marked as the echo of its own
\* transmission or as sent by the card
Echo(bs) == [i \in 1..Len(bs) |-> [b |-> bs[i], echo |-> TRUE]]

FromCard(bs) == [i \in 1..Len(bs) |-> [b |-> bs[i], echo |-> FALSE]]

Bytes(ts) == [i \in 1..Len(ts) |-> ts[i].b]

\* Serial.read(n) on input buffer ib: up to n bytes, fewer on a timeout
SerialRead(ib, n) ==
    LET k == IF Len(ib) < n THEN Len(ib) ELSE n
    IN  [r |-> SubSeq(ib, 1, k), left |-> SubSeq(ib, k + 1, Len(ib))]

\* What the tied lines give back for a write: the bytes, all but the
\* last one, or the bytes with the last one disturbed
EchoFaults == {"exact", "short", "disturbed"}

LineEcho(buf, fault) ==
    IF fault = "exact" \/ Len(buf) = 0 THEN buf
    ELSE IF fault = "short" THEN SubSeq(buf, 1, Len(buf) - 1)
    ELSE [buf EXCEPT ![Len(buf)] = BitXor(buf[Len(buf)], 1)]

\* The reader's input while tx_bytes(buf) reads: the echo, and behind an
\* intact echo what the card has already answered
Arriving(ib, buf, fault, early) ==
    ib \o Echo(LineEcho(buf, fault))
       \o (IF fault = "exact" THEN FromCard(early) ELSE <<>>)

\* tx_bytes that does not compare what it read back
tx_bytes_unchecked(ib, buf, fault, early) ==
    LET rd == SerialRead(Arriving(ib, buf, fault, early), Len(buf))
    IN  [out |-> "ok", r |-> rd.r, left |-> rd.left]

\* SerialBase.tx_bytes(buf): write, read len(buf) bytes, compare
tx_bytes(ib, buf, fault, early) ==
    LET rd == SerialRead(Arriving(ib, buf, fault, early), Len(buf))
    IN  [out |-> IF Bytes(rd.r) # buf THEN "ProtocolError" ELSE "ok",
         r |-> rd.r, left |-> rd.left]

\* Buffers written by the reader: headers and data, cut to MaxTxLen
RECURSIVE SeqsUpTo(_, _)
SeqsUpTo(S, n) ==
    IF n = 0 THEN {<<>>}
    ELSE LET shorter == SeqsUpTo(S, n - 1)
         IN  shorter \cup {Append(q, x) : q \in shorter, x \in S}

TxBuffers == SeqsUpTo({0, 160, 176}, MaxTxLen)

\* What a card answers: nothing, a procedure byte, a status word
TxCardAnswers == {<<>>, <<176>>, <<144, 0>>}

InitTx ==
    rdr = [inbuf |-> <<>>, buf |-> <<>>, r |-> <<>>, out |-> "none",
          rx |-> <<>>, answered |-> TRUE]

\* tx_bytes(buf), called when the answer to the last one has been read
TxBytes(buf, fault, early) ==
    /\ rdr.inbuf = <<>>
    /\ \E t \in {tx_bytes(rdr.inbuf, buf, fault, early)} :
           rdr' = [inbuf |-> t.left, buf |-> buf, r |-> t.r, out |-> t.out,
                  rx |-> <<>>,
                  answered |-> fault # "exact" \/ early # <<>>]
    /\ UNCHANGED <<cvars, fvars, vvars, lvars, wcvars, rcvars, lk, btvars>>

\* The card's answer arrives after tx_bytes has returned
CardSends(bs) ==
    /\ ~rdr.answered
    /\ rdr' = [rdr EXCEPT !.inbuf = @ \o FromCard(bs), !.answered = TRUE]
    /\ UNCHANGED <<cvars, fvars, vvars, lvars, wcvars, rcvars, lk, btvars>>

\* rx_byte(): one read of one byte, consumed as card data
RxByte ==
    /\ rdr.out = "ok"
    /\ rdr.inbuf # <<>>
    /\ \E rd \in {SerialRead(rdr.inbuf, 1)} :
           rdr' = [rdr EXCEPT !.inbuf = rd.left, !.rx = @ \o rd.r]
    /\ UNCHANGED <<cvars, fvars, vvars, lvars, wcvars, rcvars, lk, btvars>>

NextTx ==
    \/ \E buf \in TxBuffers, fault \in EchoFaults, early \in TxCardAnswers :
           TxBytes(buf, fault, early)
    \/ \E bs \in TxCardAnswers \ {<<>>} : CardSends(bs)
    \/ RxByte

\* --------------------------------------------------- reader: tx_apdu

\* proc=None of rx_card_response
NoByte == -1

\* Python's truth of proc and wx: None and 0 are false
Truthy(x) == x # NoByte /\ x # 0

\* The loop of rx_card_response on the bytes ib the card has sent: rx_byte
\* until a byte is neither wxt nor proc, then that byte and up to size - 1
\* more; a read that times out gives nothing
RECURSIVE RxDiscard(_, _, _, _)
RxDiscard(ib, size, proc, wx) ==
    IF ib = <<>> THEN SerialRead(ib, size)
    ELSE IF (Truthy(wx) /\ Head(ib) = wx) \/ (Truthy(proc) /\ Head(ib) = proc)
    THEN RxDiscard(Tail(ib), size, proc, wx)
    ELSE SerialRead(ib, size)

\* rx_card_response(size, proc, wx) on input ib: [ret, left]
rx_card_response(ib, size, proc, wx) ==
    IF size > 0 /\ (Truthy(proc) \/ Truthy(wx))
    THEN [ret |-> RxDiscard(ib, size, proc, wx).r,
          left |-> RxDiscard(ib, size, proc, wx).left]
    ELSE [ret |-> SerialRead(ib, size).r, left |-> SerialRead(ib, size).left]

\* The outcome of tx_apdu
ApduOutcome(e, r, w, c) == [err |-> e, ret |-> r, wrote |-> w, rc |-> c]

\* tx_apdu(apdu) with classifier tables T and profile pname; the card
\* sends card1 after the header and card2 after the command data.
\* wrote: the buffers written, in order.
tx_apdu(T, pname, apdu, card1, card2) ==
    LET header == SubSeq(apdu, 1, 5)
        data == SubSeq(apdu, 6, Len(apdu))
        ins == header[2]
        p3 == header[5]
        c == classify_apdu(T, pname, header)
        case == c.rc.case
        le == SW_LEN
    IN  IF case = 1
        THEN ApduOutcome("none",
                 rx_card_response(card1, le, ins, WXT_BYTE).ret,
                 <<header>>, c)
        ELSE IF case = 2
        THEN ApduOutcome("none",
                 rx_card_response(card1,
                     le + (IF p3 = 0 THEN 256 ELSE p3), ins, WXT_BYTE).ret,
                 <<header>>, c)
        ELSE IF case = 3 \/ case = 4
        THEN LET proc == rx_card_response(card1, 1, NoByte, WXT_BYTE)
             IN  IF proc.ret = <<>>
                 THEN ApduOutcome("IndexError", <<>>, <<header>>, c)
                 ELSE IF proc.ret[1] # ins
                 THEN ApduOutcome("none",
                          proc.ret \o rx_card_response(proc.left, 1, NoByte,
                                                       WXT_BYTE).ret,
                          <<header>>, c)
                 ELSE IF p3 > 0 /\ Len(data) > 0
                 THEN ApduOutcome("none",
                          rx_card_response(proc.left \o card2, le, ins,
                                           WXT_BYTE).ret,
                          <<header, data>>, c)
                 ELSE ApduOutcome("none",
                          rx_card_response(proc.left, le, ins, WXT_BYTE).ret,
                          <<header>>, c)
        ELSE ApduOutcome("none",
                 rx_card_response(card1, le, ins, WXT_BYTE).ret,
                 <<header>>, c)

\* APDUs given to tx_apdu: READ BINARY (case 2), UPDATE BINARY (case 3)
\* with data, with P3 = 0 and with its data left out, SELECT FILE
\* (case 4), INVALIDATE (case 1) and an unknown instruction (case 0)
ReaderApdus ==
    { <<160, 176, 0, 0, 2>>,
      <<160, 214, 0, 0, 2, 17, 34>>,
      <<160, 214, 0, 0, 0>>,
      <<160, 214, 0, 0, 2>>,
      <<160, 164, 0, 0, 2, 63, 0>>,
      <<160, 4, 0, 0, 0>>,
      <<160, 153, 0, 0, 0>> }

\* NULL and procedure bytes ahead of the card's answer
CardLeads(ins) == SeqsUpTo({WXT_BYTE, ins}, MaxLead)

\* The card's answer to a header: nothing, status words (90 00, 67 00,
\* 61 60), half a status word, and two data bytes with 90 00, the first
\* data byte being 01, NULL or the instruction byte
CardBodies(ins) ==
    { <<>>, <<144, 0>>, <<103, 0>>, <<97, 96>>, <<144>>,
      <<1, 2, 144, 0>>, <<WXT_BYTE, 2, 144, 0>>, <<ins, 2, 144, 0>> }

\* The card's answer to the command data
CardAfterData == { <<>>, <<144, 0>>, <<WXT_BYTE, 144, 0>> }

NoTxApdu == ApduOutcome("none", <<>>, <<>>, default_rc)

NoApdu ==
    [apdu |-> <<>>, lead |-> <<>>, body |-> <<>>, card2 |-> <<>>,
     out |-> "none", res |-> NoTxApdu]

\* Calls of tx_apdu about to be made, with what the card will send
ApduCalls ==
    UNION {{[apdu |-> a, lead |-> l, body |-> b, card2 |-> c2,
             out |-> "called", res |-> NoTxApdu] :
               l \in CardLeads(a[2]), b \in CardBodies(a[2]),
               c2 \in CardAfterData} : a \in ReaderApdus}

\* tx_apdu(ap.apdu) runs
TxApdu ==
    /\ ap.out = "called"
    /\ \E r \in {tx_apdu(ins_tables, profile, ap.apdu, ap.lead \o ap.body,
                         ap.card2)} :
           /\ ap' = [ap EXCEPT !.out = "done", !.res = r]
           /\ hdr' = SubSeq(ap.apdu, 1, 5)
           /\ rc' = r.rc.rc
           /\ ins_tables' = r.rc.tables
    /\ UNCHANGED <<profile, fvars, vvars, lvars, wcvars, rst, lk, rdr, btvars>>

NextApdu == TxApdu

\* ------------------------------------------------------ SAP messages

\* 'length': None in SAP_PARAMETERS
NoLength == -1

\* SAP table 5.15
SAP_PARAMETERS ==
    << [name |-> "MaxMsgSize", length |-> 2, id |-> 0],
       [name |-> "ConnectionStatus", length |-> 1, id |-> 1],
       [name |-> "ResultCode", length |-> 1, id |-> 2],
       [name |-> "DisconnectionType", length |-> 1, id |-> 3],
       [name |-> "CommandAPDU", length |-> NoLength, id |-> 4],
       [name |-> "ResponseAPDU", length |-> NoLength, id |-> 5],
       [name |-> "ATR", length |-> NoLength, id |-> 6],
       [name |-> "CardReaderdStatus", length |-> 1, id |-> 7],
       [name |-> "StatusChange", length |-> 1, id |-> 8],
       [name |-> "TransportProtocol", length |-> 1, id |-> 9],
       [name |-> "CommandAPDU7816", length |-> 2, id |-> 16] >>

\* SAP table 5.1; a parameter is <<id, mandatory>>
SAP_MESSAGES ==
    << [name |-> "CONNECT_REQ", id |-> 0, parameters |-> << <<0, TRUE>> >>],
       [name |-> "CONNECT_RESP", id |-> 1,
        parameters |-> << <<1, TRUE>>, <<0, FALSE>> >>],
       [name |-> "DISCONNECT_REQ", id |-> 2, parameters |-> <<>>],
       [name |-> "DISCONNECT_RESP", id |-> 3, parameters |-> <<>>],
       [name |-> "DISCONNECT_IND", id |-> 4,
        parameters |-> << <<3, TRUE>> >>],
       [name |-> "TRANSFER_APDU_REQ", id |-> 5,
        parameters |-> << <<4, FALSE>>, <<16, FALSE>> >>],
       [name |-> "TRANSFER_APDU_RESP", id |-> 6,
        parameters |-> << <<2, TRUE>>, <<5, FALSE>> >>],
       [name |-> "TRANSFER_ATR_REQ", id |-> 7, parameters |-> <<>>],
       [name |-> "TRANSFER_ATR_RESP", id |-> 8,
        parameters |-> << <<2, TRUE>>, <<6, FALSE>> >>],
       [name |-> "POWER_SIM_OFF_REQ", id |-> 9, parameters |-> <<>>],
       [name |-> "POWER_SIM_OFF_RESP", id |-> 10,
        parameters |-> << <<2, TRUE>> >>],
       [name |-> "POWER_SIM_ON_REQ", id |-> 11, parameters |-> <<>>],
       [name |-> "POWER_SIM_ON_RESP", id |-> 12,
        parameters |-> << <<2, TRUE>> >>],
       [name |-> "RESET_SIM_REQ", id |-> 13, parameters |-> <<>>],
       [name |-> "RESET_SIM_RESP", id |-> 14,
        parameters |-> << <<2, TRUE>> >>],
       [name |-> "TRANSFER_CARD_READER_STATUS_REQ", id |-> 15,
        parameters |-> <<>>],
       [name |-> "TRANSFER_CARD_READER_STATUS_RESP", id |-> 16,
        parameters |-> << <<2, TRUE>>, <<7, FALSE>> >>],
       [name |-> "STATUS_IND", id |-> 17, parameters |-> << <<8, TRUE>> >>],
       [name |-> "ERROR_RESP", id |-> 18, parameters |-> <<>>],
       [name |-> "SET_TRANSPORT_PROTOCOL_REQ", id |-> 19,
        parameters |-> << <<9, TRUE>> >>],
       [name |-> "SET_TRANSPORT_PROTOCOL_RESP", id |-> 20,
        parameters |-> << <<2, TRUE>> >>] >>

\* next((x for x in table if x.get('name') == name), None): the index of
\* the first entry of that name, 0 for None
FirstNamed(table, name) ==
    IF \E i \in 1..Len(table) : table[i].name = name
    THEN CHOOSE i \in 1..Len(table) :
            /\ table[i].name = name
            /\ \A j \in 1..(i - 1) : table[j].name # name
    ELSE 0

\* x in g for a generator g: g is used up to and including the first x,
\* and entirely when x is not found
InGenerator(x, g) ==
    IF \E i \in 1..Len(g) : g[i] = x
    THEN LET k == CHOOSE i \in 1..Len(g) :
                    g[i] = x /\ \A j \in 1..(i - 1) : g[j] # x
         IN  [found |-> TRUE, rest |-> SubSeq(g, k + 1, Len(g))]
    ELSE [found |-> FALSE, rest |-> <<>>]

calc_padding_len(length, blocksize) ==
    IF (length % blocksize) > 0 THEN blocksize - (length % blocksize) ELSE 0

pad_bytes(b, blocksize) ==
    b \o [i \in 1..calc_padding_len(Len(b), blocksize) |-> 0]

\* A parameter value handed to craft_sap_parameter: bytes, or an int
BytesValue(bs) == [kind |-> "bytes", bytes |-> bs, n |-> 0]

IntValue(n) == [kind |-> "int", bytes |-> <<>>, n |-> n]

\* n.to_bytes(length, byteorder='big') for n >= 0 that fits
ToBytes(n, length) ==
    [i \in 1..length |-> (n \div (256 ^ (length - i))) % 256]

\* craft_sap_parameter(param_name, param_value) for a known name. An int
\* is converted with to_bytes(param_len): TypeError when the registry
\* gives no length, OverflowError when it does not fit.
craft_sap_parameter(param_name, param_value) ==
    LET param_info == SAP_PARAMETERS[FirstNamed(SAP_PARAMETERS, param_name)]
        declared == param_info.length
    IN  IF param_value.kind = "int" /\ declared = NoLength
        THEN [err |-> "TypeError", bytes |-> <<>>]
        ELSE IF param_value.kind = "int" /\ param_value.n >= 256 ^ declared
        THEN [err |-> "OverflowError", bytes |-> <<>>]
        ELSE LET value == IF param_value.kind = "int"
                          THEN ToBytes(param_value.n, declared)
                          ELSE param_value.bytes
                 param_len == IF declared = NoLength THEN Len(value)
                              ELSE declared
             IN  IF param_len # Len(value)
                 THEN [err |-> "ProtocolError", bytes |-> <<>>]
                 ELSE [err |-> "none",
                       bytes |-> pad_bytes(<<param_info.id, 0,
                                     param_len \div 256, param_len % 256>>
                                     \o value, 4)]

\* The loop of craft_sap_message over param_list; allowed is what is left
\* of the generator allowed_params
RECURSIVE CraftParams(_, _, _, _)
CraftParams(param_list, allowed, collected_param_ids, msg_bytes) ==
    IF param_list = <<>>
    THEN [err |-> "none", collected |-> collected_param_ids,
          bytes |-> msg_bytes]
    ELSE LET p == Head(param_list)
             k == FirstNamed(SAP_PARAMETERS, p.name)
         IN  IF k = 0 \/ ~InGenerator(SAP_PARAMETERS[k].id, allowed).found
             THEN [err |-> "ProtocolError", collected |-> collected_param_ids,
                   bytes |-> <<>>]
             ELSE LET c == craft_sap_parameter(p.name, p.value)
                  IN  IF c.err # "none"
                      THEN [err |-> c.err, collected |-> collected_param_ids,
                            bytes |-> <<>>]
                      ELSE CraftParams(Tail(param_list),
                              InGenerator(SAP_PARAMETERS[k].id, allowed).rest,
                              Append(collected_param_ids, SAP_PARAMETERS[k].id),
                              msg_bytes \o c.bytes)

\* craft_sap_message(msg_name, param_list): the frame, or the exception
craft_sap_message(msg_name, param_list) ==
    LET m == FirstNamed(SAP_MESSAGES, msg_name)
    IN  IF m = 0 THEN [err |-> "ProtocolError", frame |-> <<>>]
        ELSE LET msg_params == SAP_MESSAGES[m].parameters
                 allowed_params ==
                     [i \in 1..Len(msg_params) |-> msg_params[i][1]]
                 mandatory_params ==
                     {msg_params[i][1] : i \in
                         {j \in 1..Len(msg_params) : msg_params[j][2]}}
                 c == CraftParams(param_list, allowed_params, <<>>,
                          <<SAP_MESSAGES[m].id, Len(param_list), 0, 0>>)
             IN  IF c.err # "none" THEN [err |-> c.err, frame |-> <<>>]
                 ELSE IF ~({c.collected[i] : i \in 1..Len(c.collected)}
                             \subseteq mandatory_params)
                 THEN [err |-> "ProtocolError", frame |-> <<>>]
                 ELSE [err |-> "none", frame |-> c.bytes]

\* Parameter names and values handed to craft_sap_message
SapParamNames == {SAP_PARAMETERS[i].name : i \in 1..Len(SAP_PARAMETERS)}
                 \cup {"NoSuchParameter"}

SapValues ==
    {BytesValue(<<1>>), BytesValue(<<1, 2>>), IntValue(65535), IntValue(65536)}

SapParams == [name : SapParamNames, value : SapValues]

SapParamLists == SeqsUpTo(SapParams, MaxParams)

SapMsgNames == {SAP_MESSAGES[i].name : i \in 1..Len(SAP_MESSAGES)}
               \cup {"NO_SUCH_MESSAGE"}

\* What parse_sap_message has returned: nothing yet
NotParsed == [err |-> "none", msg |-> "", params |-> <<>>, used |-> <<>>]

NoSapCall ==
    [msg |-> "", params |-> <<>>, out |-> "none", err |-> "none",
     frame |-> <<>>, parsed |-> NotParsed]

\* Calls of craft_sap_message about to be made
SapCalls ==
    {[msg |-> m, params |-> pl, out |-> "called", err |-> "none",
      frame |-> <<>>, parsed |-> NotParsed] :
        m \in SapMsgNames, pl \in SapParamLists}

\* craft_sap_message(sap.msg, sap.params) runs
CraftSapMessage ==
    /\ sap.out = "called"
    /\ \E r \in {craft_sap_message(sap.msg, sap.params)} :
           sap' = [sap EXCEPT !.out = "done", !.err = r.err,
                              !.frame = r.frame]
    /\ UNCHANGED <<cvars, fvars, vvars, lvars, wcvars, rcvars, lk, rdr>>

\* parse_sap_parameter that takes the header and the value and leaves
\* the padding where it is
parse_sap_parameter_unpadded(param_bytes) ==
    IF Len(param_bytes) < 4
    THEN [err |-> "struct.error", name |-> "", value |-> <<>>, total_len |-> 0]
    ELSE LET param_len == param_bytes[3] * 256 + param_bytes[4]
             ids == {i \in 1..Len(SAP_PARAMETERS) :
                        SAP_PARAMETERS[i].id = param_bytes[1]}
         IN  IF Len(param_bytes) - 4 < param_len
             THEN [err |-> "struct.error", name |-> "", value |-> <<>>,
                   total_len |-> 0]
             ELSE IF ids = {}
             THEN [err |-> "AttributeError", name |-> "", value |-> <<>>,
                   total_len |-> 0]
             ELSE [err |-> "none",
                   name |-> SAP_PARAMETERS[CHOOSE i \in ids : TRUE].name,
                   value |-> SubSeq(param_bytes, 5, 4 + param_len),
                   total_len |-> 4 + param_len]

\* parse_sap_parameter(param_bytes): name, value and total_len of the
\* first parameter in param_bytes. struct.error when the 4 header bytes
\* or the value with its padding are not all there, AttributeError when
\* the id is not in SAP_PARAMETERS (param_info is None).
parse_sap_parameter(param_bytes) ==
    IF Len(param_bytes) < 4
    THEN [err |-> "struct.error", name |-> "", value |-> <<>>, total_len |-> 0]
    ELSE LET param_id == param_bytes[1]
             param_len == param_bytes[3] * 256 + param_bytes[4]
             padding_len == calc_padding_len(param_len, 4)
             k == IF \E i \in 1..Len(SAP_PARAMETERS) :
                        SAP_PARAMETERS[i].id = param_id
                  THEN CHOOSE i \in 1..Len(SAP_PARAMETERS) :
                        SAP_PARAMETERS[i].id = param_id
                  ELSE 0
         IN  IF Len(param_bytes) - 4 < param_len + padding_len
             THEN [err |-> "struct.error", name |-> "", value |-> <<>>,
                   total_len |-> 0]
             ELSE IF k = 0
             THEN [err |-> "AttributeError", name |-> "", value |-> <<>>,
                   total_len |-> 0]
             ELSE [err |-> "none", name |-> SAP_PARAMETERS[k].name,
                   value |-> SubSeq(param_bytes, 5, 4 + param_len),
                   total_len |-> 4 + param_len + padding_len]

\* The loop of parse_sap_message: param_cnt parameters, each parsed at
\* the start of what the ones before it left
RECURSIVE ParseParams(_, _, _, _)
ParseParams(msg_bytes, param_cnt, param_list, used) ==
    IF param_cnt = 0
    THEN [err |-> "none", params |-> param_list, used |-> used]
    ELSE LET p == parse_sap_parameter(msg_bytes)
         IN  IF p.err # "none"
             THEN [err |-> p.err, params |-> <<>>, used |-> used]
             ELSE ParseParams(
                      SubSeq(msg_bytes, p.total_len + 1, Len(msg_bytes)),
                      param_cnt - 1,
                      Append(param_list,
                             [name |-> p.name, value |-> BytesValue(p.value)]),
                      Append(used, p.total_len))

\* parse_sap_message(msg_bytes): message name and parameter list, or the
\* exception; used is the total_len of each parameter parsed
parse_sap_message(msg_bytes) ==
    IF Len(msg_bytes) < 4
    THEN [err |-> "struct.error", msg |-> "", params |-> <<>>, used |-> <<>>]
    ELSE LET m == IF \E i \in 1..Len(SAP_MESSAGES) :
                        SAP_MESSAGES[i].id = msg_bytes[1]
                  THEN CHOOSE i \in 1..Len(SAP_MESSAGES) :
                        SAP_MESSAGES[i].id = msg_bytes[1]
                  ELSE 0
         IN  IF m = 0
             THEN [err |-> "AttributeError", msg |-> "", params |-> <<>>,
                   used |-> <<>>]
             ELSE LET ps == ParseParams(SubSeq(msg_bytes, 5, Len(msg_bytes)),
                                        msg_bytes[2], <<>>, <<>>)
                  IN  [err |-> ps.err,
                       msg |-> IF ps.err = "none" THEN SAP_MESSAGES[m].name
                               ELSE "",
                       params |-> ps.params, used |-> ps.used]

\* Frames received from the peer: CONNECT_REQ(MaxMsgSize),
\* CONNECT_RESP(ConnectionStatus, MaxMsgSize), TRANSFER_APDU_RESP(
\* ResultCode, ResponseAPDU of 5 bytes), a message id and a parameter id
\* that the registry does not have, and frames that stop short
SapFrames ==
    { <<0, 1, 0, 0,  0, 0, 0, 2, 1, 2, 0, 0>>,
      <<1, 2, 0, 0,  1, 0, 0, 1, 0, 0, 0, 0,  0, 0, 0, 2, 1, 2, 0, 0>>,
      <<6, 2, 0, 0,  2, 0, 0, 1, 0, 0, 0, 0,
        5, 0, 0, 5, 1, 2, 3, 144, 0, 0, 0, 0>>,
      <<99, 0, 0, 0>>,
      <<0, 1, 0, 0,  17, 0, 0, 1, 5, 0, 0, 0>>,
      <<0, 1, 0, 0,  0, 0, 0, 2, 1>>,
      <<0, 1, 0, 0,  0, 0>>,
      <<0, 1>> }

\* Frames about to be handed to parse_sap_message
SapReceived ==
    {[msg |-> "", params |-> <<>>, out |-> "received", err |-> "none",
      frame |-> f, parsed |-> NotParsed] : f \in SapFrames}

\* parse_sap_message(sap.frame) runs, on a received frame or on the frame
\* craft_sap_message has returned
ParseSapMessage ==
    /\ \/ sap.out = "received"
       \/ sap.out = "done" /\ sap.err = "none"
    /\ \E r \in {parse_sap_message(sap.frame)} :
           sap' = [sap EXCEPT !.out = "parsed", !.parsed = r]
    /\ UNCHANGED <<cvars, fvars, vvars, lvars, wcvars, rcvars, lk, rdr>>

NextSap == CraftSapMessage \/ ParseSapMessage

\* ---------------------------------------------------- SAP parameters

\* Parameters handed to craft_sap_parameter one by one: a 2-byte and a
\* 1-byte parameter and two of no declared length, with payloads of
\* 0..MaxPayload bytes and ints
ParamNames == {"MaxMsgSize", "ConnectionStatus", "CommandAPDU", "ResponseAPDU"}

ParamValues ==
    {BytesValue([i \in 1..n |-> 16 + i]) : n \in 0..MaxPayload}
        \cup {IntValue(7), IntValue(65535)}

\* Calls of craft_sap_parameter about to be made for a list of parameters
ParamCalls ==
    {[msg |-> "", params |-> pl, out |-> "param_called", err |-> "none",
      frame |-> <<>>, parsed |-> NotParsed] :
        pl \in SeqsUpTo([name : ParamNames, value : ParamValues], MaxParams)}

\* connect: craft_sap_message("CONNECT_REQ", [("MaxMsgSize", 0xffff)]),
\* and the same call with other values
ConnectCalls ==
    {[msg |-> "CONNECT_REQ", params |-> <<[name |-> "MaxMsgSize", value |-> v]>>,
      out |-> "called", err |-> "none", frame |-> <<>>,
      parsed |-> NotParsed] : v \in SapValues}

\* msg_bytes += self.craft_sap_parameter(*p) for each p of param_list
RECURSIVE CraftEach(_, _)
CraftEach(param_list, msg_bytes) ==
    IF param_list = <<>> THEN [err |-> "none", bytes |-> msg_bytes]
    ELSE LET c == craft_sap_parameter(Head(param_list).name,
                                      Head(param_list).value)
         IN  IF c.err # "none" THEN [err |-> c.err, bytes |-> <<>>]
             ELSE CraftEach(Tail(param_list), msg_bytes \o c.bytes)

\* craft_sap_parameter runs for each parameter of sap.params; the
\* encodings follow each other as in a frame
CraftSapParameters ==
    /\ sap.out = "param_called"
    /\ \E r \in {CraftEach(sap.params, <<>>)} :
           sap' = [sap EXCEPT !.out = "encoded", !.err = r.err,
                              !.frame = r.bytes]
    /\ UNCHANGED <<cvars, fvars, vvars, lvars, wcvars, rcvars, lk, rdr>>

\* parse_sap_parameter runs on the encodings as the loop of
\* parse_sap_message runs it: each call on what the ones before left
ParseSapParameters ==
    /\ sap.out = "encoded" /\ sap.err = "none"
    /\ \E r \in {ParseParams(sap.frame, Len(sap.params), <<>>, <<>>)} :
           sap' = [sap EXCEPT !.out = "decoded",
                              !.parsed = [err |-> r.err, msg |-> "",
                                          params |-> r.params,
                                          used |-> r.used]]
    /\ UNCHANGED <<cvars, fvars, vvars, lvars, wcvars, rcvars, lk, rdr>>

NextSapParam ==
    \/ CraftSapParameters
    \/ ParseSapParameters
    \/ CraftSapMessage
    \/ ParseSapMessage

\* ------------------------------------------------------- specifications

\* SerialBase.__init__: the clock given and the port opened at the default
\* link parameters
InitLink(c) ==
    /\ clk = c
    /\ baud = calculate_baudrate(c, DEFAULT_FI, DEFAULT_DI)

InitClassify ==
    /\ InitClassifier /\ InitFix /\ InitVsim /\ InitLink(VSIM_CLOCK)
    /\ InitWfc /\ InitReset /\ lk = NoPps /\ InitTx
    /\ sap = NoSapCall /\ ap = NoApdu

\* The virtual card constructs ApduHelper() with its default profile.
Init == InitClassify /\ profile = "UICC+SIM"

SpecClassify == InitClassify /\ [][NextClassify]_vars

SpecFix == InitClassify /\ [][NextFix]_vars

Spec == Init /\ [][Next]_vars

SpecWfc == Init /\ [][NextWfc]_vars

\* The reader: SerialSimLink() with its default baudrate
InitSerialSimLink ==
    /\ InitClassifier /\ profile = "UICC+SIM" /\ InitFix /\ InitVsim
    /\ do_pps /\ InitLink(READER_CLOCK) /\ InitWfc /\ InitReset
    /\ lk = NoPps /\ InitTx

InitReader == InitSerialSimLink /\ sap = NoSapCall /\ ap = NoApdu

\* BluetoothSapSimLink(bt_mac_addr) and a call of craft_sap_message
InitSap ==
    InitSerialSimLink /\ sap \in SapCalls \cup SapReceived /\ ap = NoApdu

\* BluetoothSapSimLink(bt_mac_addr) and calls of craft_sap_parameter, or
\* the CONNECT_REQ of connect
InitSapParam ==
    InitSerialSimLink /\ sap \in ParamCalls \cup ConnectCalls /\ ap = NoApdu

\* SerialSimLink and a call of tx_apdu
InitApdu == InitSerialSimLink /\ sap = NoSapCall /\ ap \in ApduCalls

SpecReset == InitReader /\ [][NextReset]_vars

SpecLink == InitReader /\ [][NextLink]_vars

SpecTx == InitReader /\ [][NextTx]_vars

SpecSap == InitSap /\ [][NextSap]_vars

SpecApdu == InitApdu /\ [][NextApdu]_vars

SpecSapParam == InitSapParam /\ [][NextSapParam]_vars

\* ======================================================================
\* Claims about the classifier (checked under SpecClassify)
\* ======================================================================

\* The class matches of the profile in use that match the CLA of header h
MatchingEntries(h) ==
    {i \in 1..Len(avail_profiles(profile)) :
        BitAnd(h[1], avail_profiles(profile)[i].cla_mask)
            = avail_profiles(profile)[i].cla}

TableOf(i) == ins_tables[avail_profiles(profile)[i].instructions]

Least(S) == CHOOSE j \in S : \A k \in S : j <= k

\* C7: every classify_apdu call on a built-in profile returns a result whose
\* case is one of 0, 1, 2, 3, 4: case 5 never leaks out and the call does
\* not fail.
C7_CaseInRange == hdr # NoHeader => rc.case \in 0..4

\* C7 witness: a case 5 entry was met and the helper returned 0.
C7_Witness ==
    /\ hdr # NoHeader
    /\ hdr[2] = 115
    /\ MatchingEntries(hdr) # {}
    /\ avail_profiles(profile)[Least(MatchingEntries(hdr))].helper
    /\ uicc046_cla_ins_helper(hdr) = 0
    /\ rc = default_rc

\* C8 as stated: only the first class match that matches CLA is consulted;
\* when INS is absent from its table the result is {UNKNOWN, 0}.
C8_FirstMatchWins ==
    (/\ hdr # NoHeader
     /\ MatchingEntries(hdr) # {}
     /\ hdr[2] \notin DOMAIN TableOf(Least(MatchingEntries(hdr))))
    => rc = default_rc

\* C8 amended: the result is the entry of the first class match that matches
\* CLA and whose table, as it stands after the call, gives INS a case in
\* 1..4; it is {UNKNOWN, 0} only when no matching class match does.
C8_FirstResolvingMatchWins ==
    hdr # NoHeader =>
        LET res == {i \in MatchingEntries(hdr) :
                       /\ hdr[2] \in DOMAIN TableOf(i)
                       /\ TableOf(i)[hdr[2]].case \in 1..4}
        IN  IF res = {} THEN rc = default_rc
            ELSE rc = TableOf(Least(res))[hdr[2]]

\* C8 witness: CLA 0x80, INS 0xF2 in the UICC profile: absent from the
\* 0x80/0xFF entry's table, found in the 0x80/0xF0 entry's table.
C8_Witness ==
    /\ profile = "UICC"
    /\ hdr # NoHeader
    /\ hdr[1] = 128 /\ hdr[2] = 242
    /\ Cardinality(MatchingEntries(hdr)) = 2
    /\ rc = Entry("STATUS", 2)

\* C9 as stated: the tables are never changed, so the result for a header is
\* the one the tables as loaded give, whatever was classified before.
C9_ResultIndependentOfHistory ==
    hdr # NoHeader => rc = classify_apdu(LoadedTables, profile, hdr).rc

\* What C10 says the helper gives for (INS, P1, P2)
C10_Expected(ins, p1, p2) ==
    IF ins = 115 /\ p1 = 0 THEN 2
    ELSE IF ins = 115 /\ p1 % 8 \in {1, 2, 3} /\ (p2 = 128 \/ p2 \div 32 = 0)
    THEN 3
    ELSE IF ins = 115 /\ p1 % 8 \in {1, 2, 3} /\ p2 \div 32 \in {1, 5} THEN 2
    ELSE IF ins = 115 /\ p1 % 8 = 4 THEN 3
    ELSE IF ins = 117 THEN (IF (p1 \div 4) % 2 = 1 THEN 3 ELSE 2)
    ELSE 0

\* C10: for every header classified, the helper gives the case C10 lists for
\* its (INS, P1, P2); a classifier on the UICC class bytes whose table entry
\* is still case 5 returns that case when it is 2 or 3 and UNKNOWN when it is
\* 0; and with the tables as loaded, profile UICC+SIM gives case 3 for
\* 00 73 01 80 10.
C10_HelperResolution ==
    [][hdr' # NoHeader =>
        /\ uicc046_cla_ins_helper(hdr')
               = C10_Expected(hdr'[2], hdr'[3], hdr'[4])
        /\ (/\ profile \in {"UICC", "UICC+SIM"}
            /\ hdr'[1] \in {0, 64}
            /\ hdr'[2] \in {115, 117}
            /\ ins_tables["uicc_ins_046"][hdr'[2]].case = 5)
           => rc'.case = C10_Expected(hdr'[2], hdr'[3], hdr'[4])
        /\ (/\ ins_tables = LoadedTables
            /\ profile = "UICC+SIM"
            /\ hdr' = <<0, 115, 1, 128, 16>>)
           => rc' = Entry("MANAGE SECURE CHANNEL", 3)
    ]_vars

\* C10 witness: 00 73 01 80 10 classified as case 3 under UICC+SIM.
C10_Witness ==
    /\ profile = "UICC+SIM"
    /\ hdr = <<0, 115, 1, 128, 16>>
    /\ rc = Entry("MANAGE SECURE CHANNEL", 3)

\* ======================================================================
\* Claims about the GET RESPONSE fix-up (checked under SpecFix)
\* ======================================================================

\* C5: while a response is cached, a GET RESPONSE (INS 0xC0) returns the
\* cached bytes, leaves the cache as it is and does not call handle_apdu;
\* an APDU with another INS is passed to handle_apdu and the cache then
\* holds nothing of the old content (it is empty or holds the new response).
C5_GetResponseIdempotent ==
    [][/\ (get_response_cache # NoCache /\ fx'.ins = 192)
            => /\ fx'.ret = get_response_cache
               /\ get_response_cache' = get_response_cache
               /\ ~fx'.called
               /\ ~fx'.raised
       /\ fx'.ins # 192
            => /\ fx'.called
               /\ get_response_cache' \in {NoCache, AppBytes(fx'.app)}
    ]_vars

\* C5 witness: MaxGets GET RESPONSEs in a row were served from the cache.
C5_Witness ==
    /\ fx.ins = 192
    /\ fx.served = MaxGets
    /\ get_response_cache # NoCache
    /\ fx.ret = get_response_cache

\* C6 as stated: whenever handle_apdu returned more bytes than expected, the
\* whole response is in the cache and the call returned [0x61, len - 2].
C6_OverlongCachedAndSignalled ==
    (fx.called /\ fx.app # AppRaises /\ fx.app.len > fx.expected_len)
    => /\ get_response_cache = AppBytes(fx.app)
       /\ ~fx.raised
       /\ fx.ret = <<97, fx.app.len - 2>>

\* ------------------------------------------------- claims: virtual card

\* Who put the byte at position i on the line in the current exchange
Writer(i) == line[i][1]

\* C1 as stated: in an APDU exchange no NULL byte of a WXT thread is on the
\* line after the first byte of the response (neither between two response
\* bytes nor behind them); a NULL may only come before the first one.
C1_NoNullAfterFirstResponseByte ==
    \A i, j \in DOMAIN line :
        (i < j /\ Writer(i) = "resp") => Writer(j) # "wxt"

\* The dispatch thread is inside tx_bytes: bytes written, echo not read yet
DispatchInTxBytes ==
    \/ pc = "tx_write" /\ tx.sent > 0
    \/ pc = "tx_echo" /\ tx.buf # <<>>

\* WXT thread i is inside tx_bytes: NULL written, echo not read yet
WxtInTxBytes(i) == wxt[i].pc = "echo"

\* C2 as stated: the dispatch thread and a WXT thread are never both inside
\* tx_bytes (from the write of the bytes until their echo is read back).
C2_TxBytesMutuallyExclusive ==
    ~(DispatchInTxBytes /\ \E i \in DOMAIN wxt : WxtInTxBytes(i))

\* The phases of the thread that the claim about stop() names
StopPhases == {"wait_for_reset", "send_atr", "atr", "pps_rx", "pps",
               "rx_header", "handler", "resp"}

\* C3 as stated (its safety half): after a stop() called in one of the named
\* phases, the thread never enters wait_for_reset again.
C3_NoWaitForResetAfterStop ==
    [][(stop_called /\ stop_phase \in StopPhases)
         => ~(pc # "wait_for_reset" /\ pc' = "wait_for_reset")]_vars

\* C4 as stated: as long as stop() has not been called, no error ends the
\* thread; it goes back to wait_for_reset instead.
C4_ErrorNeverEndsThread == ~stop_called => pc # "dead"

\* ------------------------------------------------ claims: the reader

\* The number of ProtocolError outcomes in a row at the end of rs
RECURSIVE TrailingProtocolErrors(_)
TrailingProtocolErrors(rs) ==
    IF rs = <<>> \/ rs[Len(rs)] # "ProtocolError" THEN 0
    ELSE 1 + TrailingProtocolErrors(SubSeq(rs, 1, Len(rs) - 1))

\* C11 as stated: wait_for_card raises ProtocolError only on a third
\* ProtocolError in a row (the first attempt counts like any other, a
\* success or NoCardError in between starts the count again), a NoCardError
\* outcome always leads to another poll, and NoCardError is raised only by
\* the timeout.
C11_ToleratesTwoConsecutiveProtocolErrors ==
    /\ wfc_pc = "ProtocolError" => TrailingProtocolErrors(resets) >= 3
    /\ (resets # <<>> /\ resets[Len(resets)] = "NoCardError")
         => wfc_pc \in {"poll", "NoCardError"}
    /\ (resets # <<>> /\ resets[Len(resets)] = "ok" /\ ~newcardonly)
         => wfc_pc = "returned"

\* C12 as stated: whatever the port delivers after the reset, reset_card
\* returns with an ATR stored or raises NoCardError (nothing arrived) or
\* ProtocolError; it ends in no other failure.
C12_ResetEndsInOneOfThree ==
    /\ rst.out \in {"none", "ok", "NoCardError", "ProtocolError"}
    /\ rst.out = "ok" => atr # <<>>
    /\ rst.out = "NoCardError" => rst.stream = <<>>

\* The number of 0x3B bytes at the head of stream s
LeadingTs(s) ==
    CHOOSE k \in 0..Len(s) :
        /\ \A i \in 1..k : s[i] = ATR_BYTE
        /\ k = Len(s) \/ s[k + 1] # ATR_BYTE

\* C13: after a _reset_card that returned 1 the stored ATR is 0x3B followed
\* by everything the port delivered behind the leading 0x3B bytes: T0, the
\* interface bytes T0 announces, T0 & 0x0F historical bytes and the rest,
\* in order; a stream with one leading 0x3B is stored as it is.
C13_StoredAtrIsStream ==
    rst.rv = "1" =>
        LET k == LeadingTs(rst.stream)
            t0 == atr[2]
        IN  /\ atr = <<ATR_BYTE>> \o SubSeq(rst.stream, k + 1, Len(rst.stream))
            /\ Len(atr) >= 2 + InterfaceBytes(t0) + (t0 % 16)
            /\ k = 1 => atr = rst.stream

\* C13 witness: the 22-byte ATR 3B 9F 96 .. 03 82 was received and stored,
\* with its byte at index 2 being TA1 = 0x96.
C13_Witness ==
    /\ rst.rv = "1"
    /\ rst.stream = ATR_OFFER_PPS
    /\ atr = ATR_OFFER_PPS
    /\ Len(atr) = 22
    /\ atr[3] = 150

\* C14 as stated: a reset_card() that succeeded with its PPS exchange,
\* followed by another reset_card() that the card answers with the same
\* ATR, stores that ATR again.
C14_ResetRepeatable ==
    [][(/\ rst.out = "ok" /\ rst.do_pps
        /\ rst'.do_pps /\ rst'.sent = rst.sent)
         => (rst'.rv = "1" /\ atr' = atr)]_vars

\* C15: in send_pps, a response that differs from the proposal (or an echo
\* that does) ends in ProtocolError with FI, DI and the baud rate as they
\* were; they change only when the response equals the proposal, and then
\* FI and DI are the high and the low nibble of the proposal's PPS1 and,
\* both being usable, the baud rate is round(clk * D / F).
C15_PpsAppliedOnlyOnMatch ==
    [][(rst'.rv = "1" /\ rst'.do_pps /\ rst'.proposal # <<>>)
         => /\ rst'.response # rst'.proposal
                => /\ rst'.out = "ProtocolError"
                   /\ fi' = fi /\ di' = di /\ baud' = baud
            /\ (fi' # fi \/ di' # di \/ baud' # baud)
                => rst'.response = rst'.proposal
            /\ rst'.response = rst'.proposal
                => /\ fi' = rst'.proposal[3] \div 16
                   /\ di' = rst'.proposal[3] % 16
            /\ rst'.out = "ok"
                => baud' = Round(clk * TBL_BITRATEFACTOR[di' + 1],
                                 TBL_CLOCKRATECONVERSION[fi' + 1])
    ]_vars

\* C15 witness: the PPS FF 10 96 79 was answered with itself and applied.
C15_Witness ==
    /\ rst.out = "ok" /\ rst.do_pps
    /\ rst.proposal = <<255, 16, 150, 121>>
    /\ rst.response = rst.proposal
    /\ fi = 9 /\ di = 6
    /\ baud = Round(clk * 32, 512)

\* C16 as stated: for every stored ATR get_pps_proposal returns FF 10 TA1
\* and their XOR, TA1 being the byte T0 announces with bit 0x10; without a
\* stored ATR it fails with NotInitializedError.
C16_ProposalFromTa1 ==
    LET q == get_pps_proposal(atr)
    IN  IF atr = <<>> THEN q.err = "NotInitializedError"
        ELSE /\ q.err = "none"
             /\ Len(q.pps) = 4
             /\ (atr[2] \div 16) % 2 = 1
                  => q.pps = <<255, 16, atr[3], BitXor(BitXor(255, 16), atr[3])>>

\* ------------------------------------------- claims: link parameters

\* C17: after a pps_sent that returned, FI is the high and DI the low
\* nibble of pps[2], and the baud rate is clk * D / F rounded to the
\* nearest integer (a tie to the even one); after pps_sent(FF 10 96 79)
\* FI = 9, DI = 6, F = 512, D = 32.
C17_AcceptedPpsSetsLink ==
    lk.ok =>
        LET F == TBL_CLOCKRATECONVERSION[fi + 1]
            D == TBL_BITRATEFACTOR[di + 1]
            e == baud * F - clk * D
            dist == IF e < 0 THEN -e ELSE e
        IN  /\ lk.pps[1] = 255
            /\ fi = lk.pps[3] \div 16
            /\ di = lk.pps[3] % 16
            /\ F # RFU /\ D # RFU
            /\ 2 * dist <= F
            /\ 2 * dist = F => baud % 2 = 0
            /\ lk.pps = <<255, 16, 150, 121>>
                 => (fi = 9 /\ di = 6 /\ F = 512 /\ D = 32)

\* C17 witness: pps_sent(FF 10 96 79) returned.
C17_Witness ==
    /\ lk.ok
    /\ lk.pps = <<255, 16, 150, 121>>
    /\ fi = 9 /\ di = 6
    /\ baud = (clk * 32) \div 512

\* C18 as stated: with usable FI and DI, get_waiting_time() * clk equals
\* 960 * D * WI * F.
C18_WaitingTimeWithD ==
    (calculate_f(fi) # RFU /\ calculate_d(di) # RFU)
    => get_waiting_time(clk, fi, di, DEFAULT_WI)
       = Fraction(960 * calculate_d(di) * DEFAULT_WI * calculate_f(fi), clk)

\* C18 amended: with usable FI and DI, get_waiting_time() * clk equals
\* 960 * WI * F (960 * D * WI work etus of F / (D * clk) seconds each).
C18_WaitingTimeWithoutD ==
    (calculate_f(fi) # RFU /\ calculate_d(di) # RFU)
    => get_waiting_time(clk, fi, di, DEFAULT_WI)
       = Fraction(960 * DEFAULT_WI * TBL_CLOCKRATECONVERSION[fi + 1], clk)

\* C18 witness: the waiting time after the PPS FF 10 96 79 (F = 512,
\* D = 32) is 960 * 10 * 512 / clk seconds.
C18_Witness ==
    /\ lk.ok
    /\ fi = 9 /\ di = 6
    /\ get_waiting_time(clk, fi, di, DEFAULT_WI) = Fraction(4915200, clk)

\* ------------------------------------------------- claims: reader TX

\* C19: a tx_bytes of N bytes reads at most N bytes before anything is
\* consumed as card data; it returns exactly when the bytes read back are
\* the bytes written, which are then its N echo bytes and no byte of the
\* card, and otherwise (differing or fewer bytes) fails with
\* ProtocolError; no echo byte is consumed as card data afterwards.
C19_EchoDrain ==
    rdr.out # "none" =>
        /\ Len(rdr.r) <= Len(rdr.buf)
        /\ (rdr.out = "ok") = (Bytes(rdr.r) = rdr.buf)
        /\ rdr.out = "ok" => rdr.r = Echo(rdr.buf)
        /\ rdr.out # "ok" => rdr.out = "ProtocolError"
        /\ Len(rdr.r) < Len(rdr.buf) => rdr.out = "ProtocolError"
        /\ \A i \in 1..Len(rdr.rx) : ~rdr.rx[i].echo
        /\ \A i \in 1..Len(rdr.inbuf) : ~rdr.inbuf[i].echo

\* C19 witness: three bytes written, their echo read back, and the card's
\* status word, which was already behind the echo, consumed afterwards.
C19_Witness ==
    /\ rdr.out = "ok"
    /\ rdr.buf = <<160, 176, 160>>
    /\ Bytes(rdr.r) = <<160, 176, 160>>
    /\ Bytes(rdr.rx) = <<144, 0>>

\* A tx_bytes that failed on an echo one byte short
C19_WitnessShort ==
    /\ rdr.out = "ProtocolError"
    /\ Len(rdr.buf) = 3
    /\ Len(rdr.r) = 2

\* ------------------------------------------------------- claims: SAP

\* The ids of the mandatory parameters of message msg_name that no entry
\* of param_list names
MissingMandatory(msg_name, param_list) ==
    LET msg_params == SAP_MESSAGES[FirstNamed(SAP_MESSAGES, msg_name)].parameters
        present == {SAP_PARAMETERS[FirstNamed(SAP_PARAMETERS,
                                              param_list[i].name)].id :
                       i \in {j \in 1..Len(param_list) :
                           FirstNamed(SAP_PARAMETERS, param_list[j].name) # 0}}
    IN  {msg_params[i][1] :
            i \in {j \in 1..Len(msg_params) : msg_params[j][2]}} \ present

\* C20: for every message of the registry and every parameter list that
\* lacks one of its mandatory parameters, craft_sap_message fails with
\* ProtocolError and returns no frame.
C20_MissingMandatoryRejected ==
    (/\ sap.out \in {"done", "parsed"}
     /\ FirstNamed(SAP_MESSAGES, sap.msg) # 0
     /\ MissingMandatory(sap.msg, sap.params) # {})
    => (sap.err = "ProtocolError" /\ sap.frame = <<>>)

\* param_list is a legal list for message msg_name: known names, each
\* parameter allowed in the message and given once, every mandatory one
\* present, values of the declared length
LegalSapCall(msg_name, param_list) ==
    /\ FirstNamed(SAP_MESSAGES, msg_name) # 0
    /\ \A i \in 1..Len(param_list) :
           /\ FirstNamed(SAP_PARAMETERS, param_list[i].name) # 0
           /\ LET info == SAP_PARAMETERS[FirstNamed(SAP_PARAMETERS,
                                                    param_list[i].name)]
                  msg_params ==
                      SAP_MESSAGES[FirstNamed(SAP_MESSAGES, msg_name)].parameters
              IN  /\ \E j \in 1..Len(msg_params) : msg_params[j][1] = info.id
                  /\ param_list[i].value.kind = "bytes"
                  /\ info.length \in {NoLength,
                                      Len(param_list[i].value.bytes)}
           /\ \A j \in 1..Len(param_list) :
                  param_list[j].name = param_list[i].name => j = i
    /\ MissingMandatory(msg_name, param_list) = {}

\* C21: every legal parameter list (all mandatory parameters, any subset
\* of the optional ones, each once, in any order) is encoded without
\* error.
C21_LegalListEncoded ==
    (sap.out \in {"done", "parsed"} /\ LegalSapCall(sap.msg, sap.params))
    => sap.err = "none"

\* C22: for every legal message and legal parameter list with byte
\* values, parse_sap_message(craft_sap_message(m, params)) returns m and
\* the same parameters with the same values in the same order.
C22_SapRoundTrip ==
    (sap.out \in {"done", "parsed"} /\ LegalSapCall(sap.msg, sap.params))
    => /\ sap.err = "none"
       /\ sap.out = "parsed" =>
              /\ sap.parsed.err = "none"
              /\ sap.parsed.msg = sap.msg
              /\ sap.parsed.params = sap.params

\* The round trip for the legal lists that craft_sap_message does encode
SapRoundTripWhereEncoded ==
    (/\ sap.out = "parsed"
     /\ sap.msg # ""
     /\ \A i \in 1..Len(sap.params) : sap.params[i].value.kind = "bytes")
    => /\ sap.parsed.err = "none"
       /\ sap.parsed.msg = sap.msg
       /\ sap.parsed.params = sap.params

\* C23: every violation of the registry or of a length surfaces as
\* ProtocolError and as no other failure, in craft_sap_message (unknown
\* message or parameter name, parameter not allowed, wrong length, int
\* that does not fit) and in parse_sap_message (message id or parameter
\* id not in the registry).
C23_OnlyProtocolError ==
    /\ sap.err \in {"none", "ProtocolError"}
    /\ sap.parsed.err \in {"none", "ProtocolError"}

\* ------------------------------------- claims: virtual card, threads

\* WXT thread i ends a read on the port in this step
WxtReads(i) == wxt[i].pc = "echo" /\ wxt'[i].pc # "echo"

\* The dispatch thread ends the echo read of tx_bytes(response) in this
\* step, with no cancel_read() pending
DispatchChecksEcho ==
    pc = "tx_echo" /\ phase = "resp" /\ pc' # "tx_echo" /\ ~cancel

\* C24: only the dispatch thread reads from the port: a WXT thread never
\* takes a byte of the port's input, and the echo check of the dispatch
\* thread's response never fails (the line echoes every byte faithfully).
C24_OnlyDispatchReads ==
    [][/\ \A i \in DOMAIN wxt : WxtReads(i) => inbuf' = inbuf
       /\ DispatchChecksEcho => pc' = "loop"]_vars

\* C25: once _handle_apdu_with_wxt has set the stop event of an APDU's
\* WXT thread, that thread writes no further NULL byte.
C25_NoNullAfterStop ==
    [][\A i \in DOMAIN wxt : wxt[i].stop => wxt'[i].n = wxt[i].n]_vars

RECURSIVE SkipNull(_)
SkipNull(s) ==
    IF s # <<>> /\ Head(s) = WXT_BYTE THEN SkipNull(Tail(s)) ELSE s

\* C27: in case 3/4 the reader writes the command data only after it has
\* received a procedure byte equal to INS (NULL bytes before it skipped);
\* if the first non-NULL byte is not INS, no command data is written and
\* the result is that byte followed by the next byte.
C27_DataAfterProcedureByte ==
    (ap.out = "done" /\ ap.res.rc.rc.case \in {3, 4})
    => LET sent == SkipNull(ap.lead \o ap.body)
       IN  /\ Len(ap.res.wrote) > 1 => (sent # <<>> /\ sent[1] = ap.apdu[2])
           /\ (Len(sent) >= 2 /\ sent[1] # ap.apdu[2])
                => /\ ap.res.wrote = <<SubSeq(ap.apdu, 1, 5)>>
                   /\ ap.res.ret = SubSeq(sent, 1, 2)

\* C28: rx_card_response(n, proc) returns the full n-byte frame: in case
\* 2, whatever NULL and procedure bytes the card sends ahead of the
\* P3 + 2 bytes of its answer and whatever the answer holds, the result
\* is exactly those bytes.
C28_FullFrameReturned ==
    (/\ ap.out = "done"
     /\ ap.res.rc.rc.case = 2
     /\ Len(ap.body) = ap.apdu[5] + SW_LEN)
    => ap.res.ret = ap.body

\* ------------------------------------------ claims: fix-up, short branch

\* C29: when handle_apdu returned a response shorter than expected_len but
\* of at least 2 bytes, the response is in the cache and the call returned
\* exactly [0x6C, len - 2]; a response of fewer than 2 bytes is returned as
\* it is and not cached; a response of exactly expected_len bytes is
\* returned as it is and the cache is empty.
C29_ShortCachedAndSignalled ==
    (fx.called /\ fx.app # AppRaises)
    => /\ (fx.app.len < fx.expected_len /\ fx.app.len >= SW_LEN)
            => /\ get_response_cache = AppBytes(fx.app)
               /\ ~fx.raised
               /\ fx.ret = <<108, fx.app.len - 2>>
       /\ fx.app.len < SW_LEN
            => /\ fx.ret = AppBytes(fx.app)
               /\ ~fx.raised
               /\ get_response_cache = NoCache
       /\ fx.app.len = fx.expected_len
            => /\ fx.ret = AppBytes(fx.app)
               /\ ~fx.raised
               /\ get_response_cache = NoCache

\* C29 witness: a response of 3 bytes where 5 were expected was cached and
\* answered with 6C 01.
C29_Witness ==
    /\ fx.called
    /\ fx.app.len = 3
    /\ fx.expected_len = 5
    /\ fx.ret = <<108, 1>>
    /\ get_response_cache = AppBytes(fx.app)

\* The longest short response: 257 bytes where 258 were expected give 6C FF
C29_WitnessLongest ==
    /\ fx.called
    /\ fx.app.len = 257
    /\ fx.expected_len = 258
    /\ fx.ret = <<108, 255>>

\* ------------------------------------------------------ claims: case 0

\* The reader's part of C30: for a case 0 header tx_apdu writes the header
\* only and returns what a 2-byte read of the card's answer gives.
ReaderCaseZeroReadsTwo ==
    (ap.out = "done" /\ ap.res.rc.rc.case = 0)
    => /\ ap.res.err = "none"
       /\ ap.res.wrote = <<SubSeq(ap.apdu, 1, HEADER_LEN)>>
       /\ ap.res.ret = rx_card_response(ap.lead \o ap.body, SW_LEN,
                                        ap.apdu[2], WXT_BYTE).ret

\* C30: when the virtual card has read a full header that the classifier
\* gives case 0, the exchange proceeds: the 5-byte header goes to the
\* application handler and the card stays in its APDU dispatch loop.
C30_CaseZeroProceeds ==
    [][(/\ pc = "rx_header"
        /\ pc' # "rx_header"
        /\ ~cancel
        /\ Len(inbuf) >= HEADER_LEN
        /\ inbuf' = SubSeq(inbuf, HEADER_LEN + 1, Len(inbuf))
        /\ classify_apdu(ins_tables, profile,
                         SubSeq(inbuf, 1, HEADER_LEN)).rc.case = 0)
       => /\ pc' = "handler"
          /\ cur_apdu' = SubSeq(inbuf, 1, HEADER_LEN)
          /\ alive' = alive
    ]_vars

\* ------------------------------------------------ claims: SAP parameters

\* The payload of parameter p: the bytes given, or the int in as many
\* bytes as SAP_PARAMETERS declares
Payload(p) ==
    IF p.value.kind = "int"
    THEN ToBytes(p.value.n,
                 SAP_PARAMETERS[FirstNamed(SAP_PARAMETERS, p.name)].length)
    ELSE p.value.bytes

\* Parameter p as the format has it: id, reserved, length in 2 bytes, the
\* payload and (4 - (4 + payload_len) mod 4) mod 4 zero bytes
Encoded(p) ==
    <<SAP_PARAMETERS[FirstNamed(SAP_PARAMETERS, p.name)].id, 0,
      Len(Payload(p)) \div 256, Len(Payload(p)) % 256>>
    \o Payload(p)
    \o [i \in 1..((4 - ((4 + Len(Payload(p))) % 4)) % 4) |-> 0]

RECURSIVE EncodedAll(_)
EncodedAll(ps) == IF ps = <<>> THEN <<>> ELSE Encoded(Head(ps)) \o EncodedAll(Tail(ps))

\* C31: every encoded SAP parameter is 4 header bytes, the payload and
\* (4 - (4 + payload_len) mod 4) mod 4 zero bytes, a multiple of 4 bytes in
\* all; parse_sap_parameter consumes exactly that many bytes for it and so
\* finds each following parameter at its offset, giving back name and
\* payload; CONNECT_REQ with MaxMsgSize=0xFFFF encodes to
\* 00 01 00 00 00 00 00 02 FF FF 00 00.
C31_ParameterPaddedAndConsumed ==
    /\ (sap.out \in {"encoded", "decoded"} /\ sap.err = "none")
         => /\ sap.frame = EncodedAll(sap.params)
            /\ \A i \in 1..Len(sap.params) :
                   Len(Encoded(sap.params[i])) % 4 = 0
    /\ sap.out = "decoded"
         => /\ sap.parsed.err = "none"
            /\ sap.parsed.used =
                   [i \in 1..Len(sap.params) |-> Len(Encoded(sap.params[i]))]
            /\ sap.parsed.params =
                   [i \in 1..Len(sap.params) |->
                       [name |-> sap.params[i].name,
                        value |-> BytesValue(Payload(sap.params[i]))]]
    /\ (/\ sap.out \in {"done", "parsed"}
        /\ sap.params = <<[name |-> "MaxMsgSize", value |-> IntValue(65535)]>>)
         => /\ sap.err = "none"
            /\ sap.frame = <<0, 1, 0, 0, 0, 0, 0, 2, 255, 255, 0, 0>>

\* C31 witness: two parameters, the first with 3 bytes of padding, were
\* encoded and parsed again, the second found at offset 8.
C31_Witness ==
    /\ sap.out = "decoded"
    /\ Len(sap.params) = 2
    /\ Len(Payload(sap.params[1])) = 1
    /\ Len(Payload(sap.params[2])) = 3
    /\ sap.parsed.used = <<8, 8>>
    /\ sap.parsed.params[2].value.bytes = <<17, 18, 19>>

\* The CONNECT_REQ of connect was encoded
C31_WitnessConnect ==
    /\ sap.out = "done"
    /\ sap.msg = "CONNECT_REQ"
    /\ sap.frame = <<0, 1, 0, 0, 0, 0, 0, 2, 255, 255, 0, 0>>

\* ------------------------------------- claims: status word of a case 2

\* C32: when handle_apdu answered a case 2 command (expected length
\* P3 + 2 > 2) with a status word only, the response the virtual card
\* transmits is those two bytes, unchanged.
C32_StatusWordPassedOn ==
    (/\ phase = "resp"
     /\ fx.called
     /\ ~fx.raised
     /\ fx.app # AppRaises
     /\ fx.app.len = SW_LEN
     /\ fx.expected_len > SW_LEN)
    => tx.buf = AppBytes(fx.app)

====
